---- MODULE Spec2Model ----
(***************************************************************************)
(* Model of the crow-vm bytecode interpreter (src/src/vm.rs) with its      *)
(* closure / up-value objects (src/src/object.rs), the instruction         *)
(* encoding (src/src/op.rs) and the reference counted handles              *)
(* (src/src/handle.rs).                                                    *)
(*                                                                         *)
(* Conventions                                                             *)
(*  - Rust vectors are 0-based; TLA+ sequences are 1-based.  At(s, i) and  *)
(*    Put(s, i, v) access the element with Rust index i.                   *)
(*  - A usize is kept as an integer x; a negative x stands for the wrapped *)
(*    value 2^64 + x that a release build computes (a debug build panics   *)
(*    on the overflow instead).  Every comparison and index of a usize     *)
(*    therefore treats a negative x as larger than any vector length.      *)
(*  - Rc<Closure> and Handle<UpValue> are heap references: a closure is    *)
(*    its index in closures, an up-value cell its index in cells.  Cloning *)
(*    a handle copies the index.                                           *)
(*  - Rc<Func> is the index of the prototype in prog.                      *)
(*  - A panic (index out of bounds, arithmetic overflow in a debug build)  *)
(*    ends the run with status "panic": run_function does not return.      *)
(***************************************************************************)
EXTENDS Integers, Sequences, FiniteSets, TLC

VARIABLES
    prog,       \* the compiled prototypes (Func) the host can run
    checked,    \* TRUE: overflow checks on (debug build), FALSE: wrapping (release)
    stack,      \* Vm.stack
    calls,      \* Vm.calls
    frame,      \* run_interpreter's local `frame`
    action,     \* the FrameAction run_op_loop handed to run_interpreter
    status,     \* "idle" | "running" | "ok" | "err" | "panic"
    error,      \* message of the Runtime error or of the panic
    closures,   \* heap: every Closure allocated
    cells,      \* heap: every UpValue cell allocated
    runs,       \* number of run_function calls made on this Vm
    last,       \* history: the last step taken, with the frame and stack before it
    encoded,    \* the host's Arg24 conversion in progress: input, result, decoded value
    shared      \* the host's Shared<T> handles to one object, with the object's Rc counts

vars == <<prog, checked, stack, calls, frame, action, status, error,
          closures, cells, runs, last, encoded, shared>>

----------------------------------------------------------------------------
(* Bounds of the model *)

\* run_function calls made on one Vm
MaxRuns == 2
\* values a generated callee pushes before it returns
MaxPush == 2
\* largest count of a generated Return, and largest results of a generated Call
MaxCount == 2
\* largest stack_size of a generated callee prototype
MaxStackSize == 4
\* largest argument of the recursion test
MaxFib == 5
\* scopes between the parent and the innermost closure of a nested program
MaxDepth == 2
\* largest magnitude of an integer operand of a generated arithmetic program
MaxOperand == 2
\* how far around each byte boundary of an Arg24 the conversion inputs reach
MaxSpan == 2
\* largest constant index a generated constant-access program uses
MaxConst == 1
\* largest magnitude of the offset of a generated jump
MaxJump == 2
\* handles to the one object the host holds at a time
MaxHandles == 5

----------------------------------------------------------------------------
(* Values: src/src/value.rs *)

IntV(n) ==
    [t |-> "Int", v |-> n]

from_func(f) ==
    [t |-> "Func", v |-> f]

from_closure(c) ==
    [t |-> "Closure", v |-> c]

\* Value::Float.  No instruction of this Vm pushes a Float (PushFloat is
\* todo!()), so a Float is carried only as an integer-valued number.
FloatV(x) ==
    [t |-> "Float", v |-> x]

from_bool(b) ==
    IntV(IF b THEN 1 ELSE 0)

as_int(val) ==
    IF val.t = "Int" THEN [some |-> TRUE, v |-> val.v] ELSE [some |-> FALSE, v |-> 0]

as_float(val) ==
    IF val.t = "Float" THEN [some |-> TRUE, v |-> val.v] ELSE [some |-> FALSE, v |-> 0]

as_closure(val) ==
    IF val.t = "Closure" THEN [some |-> TRUE, v |-> val.v] ELSE [some |-> FALSE, v |-> 0]

\* Placeholder for "no value" in records that need a value field.
NoValue ==
    [t |-> "None", v |-> 0]

----------------------------------------------------------------------------
(* Up-value cells and closures: src/src/object.rs *)

Open(offset) ==
    [t |-> "Open", off |-> offset, val |-> NoValue]

Closed(value) ==
    [t |-> "Closed", off |-> 0, val |-> value]

Parent(local_id) ==
    [t |-> "Parent", i |-> local_id]

Outer(upvalue_id) ==
    [t |-> "Outer", i |-> upvalue_id]

\* Closure::new and Closure::with_up_values
Closure(func, up_values) ==
    [func |-> func, up_values |-> up_values]

\* Func { code, stack_size, constants.funcs, up_values } with empty ints, floats
\* and strings pools.
Func(code, stack_size, funcs, up_values) ==
    [code |-> code, stack_size |-> stack_size, funcs |-> funcs, up_values |-> up_values,
     ints |-> <<>>, floats |-> <<>>, strings |-> <<>>]

\* struct Constants: the prototype func with the given ints, floats and strings pools.
Constants(func, ints, floats, strings) ==
    [func EXCEPT !.ints = ints, !.floats = floats, !.strings = strings]

----------------------------------------------------------------------------
(* Vector helpers (Rust indices) *)

InBounds(s, i) ==
    i >= 0 /\ i < Len(s)

At(s, i) ==
    s[i + 1]

Put(s, i, v) ==
    [s EXCEPT ![i + 1] = v]

\* Vec::truncate: keeps the first n elements, no effect when n >= len.
Truncate(s, n) ==
    IF n < 0 \/ n >= Len(s) THEN s ELSE SubSeq(s, 1, n)

\* Vec::pop applied n times (popping an empty vector yields None and does nothing).
PopN(s, n) ==
    IF n >= Len(s) THEN <<>> ELSE SubSeq(s, 1, Len(s) - n)

----------------------------------------------------------------------------
(* Instruction operands: Arg24, src/src/op.rs *)

\* Range limits of a signed 24-bit operand (crate::limits).
MAX_ARG_24 ==
    8388608

MIN_ARG24 ==
    -8388608

\* The three low-order little-endian bytes of value.to_le_bytes().
LeBytes3(value) ==
    LET u == value % 16777216
    IN  <<u % 256, (u \div 256) % 256, u \div 65536>>

from_i64(value) ==
    IF value >= MAX_ARG_24 THEN [ok |-> FALSE, arg |-> <<0, 0, 0>>]
    ELSE IF value <= MIN_ARG24 THEN [ok |-> FALSE, arg |-> <<0, 0, 0>>]
    ELSE [ok |-> TRUE, arg |-> LeBytes3(value)]

from_i32(value) ==
    IF value >= MAX_ARG_24 THEN [ok |-> FALSE, arg |-> <<0, 0, 0>>]
    ELSE IF value <= MIN_ARG24 THEN [ok |-> FALSE, arg |-> <<0, 0, 0>>]
    ELSE [ok |-> TRUE, arg |-> LeBytes3(value)]

from_u32(value) ==
    [ok |-> TRUE, arg |-> LeBytes3(value)]

\* i64::from_le_bytes([0,0,0,0,0,a,b,c]) >> 40: sign-extends bit 23.
into_i64(arg) ==
    LET u == arg[1] + 256 * arg[2] + 65536 * arg[3]
    IN  IF u >= 8388608 THEN u - 16777216 ELSE u

into_u32(arg) ==
    arg[1] + 256 * arg[2] + 65536 * arg[3]

into_usize(arg) ==
    arg[1] + 256 * arg[2] + 65536 * arg[3]

----------------------------------------------------------------------------
(* Instructions: enum Op and mod shorthand, src/src/op.rs.                 *)
(* An instruction is [op, arg, a, b]: arg is its Arg24 operand, kept       *)
(* encoded, a and b are its u16 / u8 operands in declaration order; an     *)
(* operand the variant does not have is zero.                              *)

NoArg ==
    <<0, 0, 0>>

Ins(name, arg, a, b) ==
    [op |-> name, arg |-> arg, a |-> a, b |-> b]

noop ==
    Ins("NoOp", NoArg, 0, 0)

pop(n) ==
    Ins("Pop", from_u32(n).arg, 0, 0)

end ==
    Ins("End", NoArg, 0, 0)

return_(result_count) ==
    Ins("Return", NoArg, result_count, 0)

call(base, result_count) ==
    Ins("Call", NoArg, base, result_count)

set_local(slot) ==
    Ins("SetLocal", NoArg, slot, 0)

get_local(slot) ==
    Ins("GetLocal", NoArg, slot, 0)

set_upvalue(upvalue_id) ==
    Ins("SetUpValue", NoArg, upvalue_id, 0)

get_upvalue(upvalue_id) ==
    Ins("GetUpValue", NoArg, upvalue_id, 0)

push_int_inlined(int) ==
    Ins("PushIntIn", from_i32(int).arg, 0, 0)

push_func(const_id) ==
    Ins("PushFunc", from_u32(const_id).arg, 0, 0)

create_closure(func_id) ==
    Ins("CreateClosure", from_u32(func_id).arg, 0, 0)

int_add ==
    Ins("Int_Add", NoArg, 0, 0)

int_sub ==
    Ins("Int_Sub", NoArg, 0, 0)

int_lt ==
    Ins("Int_Lt", NoArg, 0, 0)

\* An instruction without operands: Op::Int_Neg .. Op::Float_Ge.
arith(name) ==
    Ins(name, NoArg, 0, 0)

\* A variant that carries one Arg24: Op::PushInt(Arg24), Op::JumpNe { addr }, ...
with_arg24(name, value) ==
    Ins(name, LeBytes3(value), 0, 0)

jump_gt(address_offset) ==
    Ins("JumpGt", from_i32(address_offset).arg, 0, 0)

jump_zero(address_offset) ==
    Ins("JumpZero", from_i64(address_offset).arg, 0, 0)

----------------------------------------------------------------------------
(* Programs: the prototype tables the host hands to run_function.          *)
(* constants.funcs of a prototype lists indices into the table.            *)

\* src/src/tests.rs test_basic_math
TestBasicMath ==
    << Func(<<push_int_inlined(7), push_int_inlined(11), int_add, end>>, 3, <<>>, <<>>) >>

\* src/src/tests.rs test_basic_branch
TestBasicBranch ==
    << Func(<<push_int_inlined(7), push_int_inlined(11),
              get_local(1), get_local(2), int_lt, jump_zero(2),
              push_int_inlined(123), return_(1),
              push_int_inlined(456), return_(1),
              end>>, 4, <<>>, <<>>) >>

\* src/src/tests.rs test_basic_call: prototype 1 is top_func, 2 is add_func
TestBasicCall ==
    << Func(<<push_int_inlined(7), push_int_inlined(11), push_func(0),
              get_local(1), get_local(2), call(3, 1), end>>, 6, <<2>>, <<>>),
       Func(<<int_add, return_(1), end>>, 2, <<>>, <<>>) >>

\* src/src/tests.rs test_recursion with INPUT = k: prototype 1 is top_func, 2 is fib_func
FibFunc ==
    Func(<<get_local(1), push_int_inlined(1), jump_gt(1), return_(1),
           get_upvalue(0), get_local(1), push_int_inlined(2), int_sub, call(2, 1),
           get_upvalue(0), get_local(1), push_int_inlined(1), int_sub, call(3, 1),
           int_add, return_(1), end>>, 7, <<>>, <<Parent(1)>>)

TestRecursion(k) ==
    << Func(<<create_closure(0), get_local(1), push_int_inlined(k), call(2, 1),
              return_(1), end>>, 6, <<2>>, <<>>),
       FibFunc >>

\* m inline pushes: PushIntIn 11, PushIntIn 12, ...
RECURSIVE Pushes(_)
Pushes(m) ==
    IF m = 0 THEN <<>> ELSE Append(Pushes(m - 1), push_int_inlined(10 + m))

\* A caller that creates a closure of prototype 2 and calls it expecting r
\* results; the callee runs `body` and leaves with the instruction `leave`; its
\* prototype declares stack_size s.  Prototype 3 is a closure over the callee's
\* local 1 that a body may instantiate.
CallReturn(body, leave, r, s) ==
    << Func(<<create_closure(0), call(1, r), end>>, 3, <<2>>, <<>>),
       Func(body \o <<leave>>, s, <<3>>, <<>>),
       Func(<<get_upvalue(0), return_(1)>>, 2, <<>>, <<Parent(1)>>) >>

\* Callee bodies: m pushes; a pop of the callee's own callable slot; a local
\* captured by one or two closures.
Bodies ==
    {Pushes(m) : m \in 0..MaxPush}
    \cup {<<pop(1)>>, <<pop(2)>>, <<arith("Int_Neg")>>, <<arith("Float_Neg")>>,
          <<push_int_inlined(11), push_int_inlined(12), pop(1), arith("Int_Neg")>>}
    \cup {<<push_int_inlined(11), create_closure(0)>>,
          <<push_int_inlined(11), create_closure(0), create_closure(0)>>}

Leaves ==
    {return_(n) : n \in 0..MaxCount} \cup {end}

CallReturnPrograms ==
    {CallReturn(body, leave, r, s) :
        body \in Bodies, leave \in Leaves, r \in 0..MaxCount, s \in 0..MaxStackSize}

\* A closure body that reads its captured variable and returns it.
Getter(origin) ==
    Func(<<get_upvalue(0), return_(1)>>, 2, <<>>, <<origin>>)

\* A closure body that writes its argument (local 1) to its captured variable.
Setter ==
    Func(<<get_local(1), set_upvalue(0), return_(0)>>, 2, <<>>, <<Parent(1)>>)

\* A caller that calls prototype 2, then calls the closure that call returned,
\* and returns what the closure returned.
TopTwice ==
    Func(<<create_closure(0), call(1, 1), call(1, 1), return_(1)>>, 3, <<2>>, <<>>)

\* Spec scenario 5: outer declares local x = 42 (slot 1), creates the closure
\* (prototype 3) that captures x and returns it.
OutlivePlain ==
    << TopTwice,
       Func(<<push_int_inlined(42), create_closure(0), return_(1)>>, 3, <<3>>, <<>>),
       Getter(Parent(1)) >>

\* Scenario 5 with x assigned (SetLocal) after the closure was created.
OutliveSetLocal ==
    << TopTwice,
       Func(<<push_int_inlined(42), create_closure(0), push_int_inlined(43),
              set_local(1), pop(1), return_(1)>>, 3, <<3>>, <<>>),
       Getter(Parent(1)) >>

\* Scenario 5 with x assigned through a second closure (prototype 4, SetUpValue)
\* called while outer is still running.
OutliveSetUpValue ==
    << TopTwice,
       Func(<<push_int_inlined(42), create_closure(0), create_closure(1),
              push_int_inlined(44), call(3, 0), return_(1)>>, 3, <<3, 4>>, <<>>),
       Getter(Parent(1)),
       Setter >>

\* Two closures over the same local: outer returns the setter and the getter;
\* the caller assigns 99 through the setter, then reads through the getter.
SharedPair ==
    << Func(<<create_closure(0), call(1, 2),
              get_local(1), push_int_inlined(99), call(3, 0),
              get_local(2), call(3, 1), return_(1)>>, 4, <<2>>, <<>>),
       Func(<<push_int_inlined(42), create_closure(1), create_closure(0),
              return_(2)>>, 4, <<3, 4>>, <<>>),
       Getter(Parent(1)),
       Setter >>

\* A scope between parent and the innermost closure: it creates the closure of
\* the next prototype (constant 0) and returns it, calling it first when that
\* one is itself such a scope (so that the innermost closure is passed up).
Link(next, calls_next, up_values) ==
    Func(<<create_closure(0)>>
         \o (IF calls_next THEN <<call(1, 1)>> ELSE <<>>)
         \o <<return_(1)>>, 2, <<next>>, up_values)

\* Nested scopes: grand (prototype 2) declares x = 42 and calls parent
\* (prototype 3, captures x as Parent(1)); parent assigns 50 to x and creates the
\* next scope; d further scopes (origin Outer(0)) follow, the innermost creating
\* the getter (origin Outer(0)), which is returned through every scope.
NestedOuter(d) ==
    << TopTwice,
       Func(<<push_int_inlined(42), create_closure(0), call(2, 1), return_(1)>>,
            3, <<3>>, <<>>),
       Func(<<push_int_inlined(50), set_upvalue(0), create_closure(0)>>
            \o (IF d > 0 THEN <<call(1, 1)>> ELSE <<>>)
            \o <<return_(1)>>, 2, <<4>>, <<Parent(1)>>) >>
    \o [k \in 1..d |-> Link(4 + k, k < d, <<Outer(0)>>)]
    \o << Getter(Outer(0)) >>

\* The caller keeps a holder local (slot 1); outer (prototype 2, captures the
\* holder) declares x = 42, creates the getter over x, stores it in the holder
\* and leaves with the instruction `leave`; the caller then calls the getter.
LeaveHolder(leave) ==
    << Func(<<push_int_inlined(0), create_closure(0), call(2, 0),
              get_local(1), call(2, 1), return_(1)>>, 4, <<2>>, <<>>),
       Func(<<push_int_inlined(42), create_closure(0), set_upvalue(0), leave>>,
            2, <<3>>, <<Parent(1)>>),
       Getter(Parent(1)) >>

\* A closure with three origins: the caller (prototype 1) declares x = 42 and
\* calls mid (prototype 2, captures x), which declares locals 1 and 2 and
\* creates inner (prototype 3), whose table is Parent(1), Outer(0), Parent(2).
MixedOrigins ==
    << Func(<<push_int_inlined(42), create_closure(0), call(2, 0), end>>, 4, <<2>>, <<>>),
       Func(<<push_int_inlined(7), push_int_inlined(8), create_closure(0), return_(0)>>,
            4, <<3>>, <<Parent(1)>>),
       Func(<<get_upvalue(1), return_(1)>>, 2, <<>>, <<Parent(1), Outer(0), Parent(2)>>) >>

\* A body without a terminating End.
FallsOff ==
    << Func(<<noop>>, 1, <<>>, <<>>) >>

ClosurePrograms ==
    {OutlivePlain, OutliveSetLocal, OutliveSetUpValue, SharedPair,
     LeaveHolder(end), LeaveHolder(return_(0)), MixedOrigins}
    \cup {NestedOuter(d) : d \in 0..MaxDepth}

\* The instructions that put an operand on the stack: an Int, or the closure
\* of the running frame (slot 0), which is no number.
Operands ==
    {push_int_inlined(v) : v \in (-MaxOperand)..MaxOperand} \cup {get_local(0)}

IntBinaryOps ==
    {"Int_Add", "Int_Sub", "Int_Mul", "Int_Div", "Int_Mod",
     "Int_Ne", "Int_Eq", "Int_Lt", "Int_Le", "Int_Gt", "Int_Ge"}

FloatBinaryOps ==
    {"Float_Add", "Float_Sub", "Float_Mul", "Float_Div", "Float_Mod",
     "Float_Ne", "Float_Eq", "Float_Lt", "Float_Le", "Float_Gt", "Float_Ge"}

ArithOps ==
    IntBinaryOps \cup FloatBinaryOps \cup {"Int_Neg", "Float_Neg"}

\* x; y; op; End
ArithPrograms ==
    {<< Func(<<x, y, arith(name), end>>, 3, <<>>, <<>>) >> :
        x \in Operands, y \in Operands, name \in ArithOps}

\* PushIntIn v; Call{base, results}; End: the called slot holds an Int, or lies
\* beyond the stack.
CallValuePrograms ==
    {<< Func(<<push_int_inlined(v), call(b, r), end>>, 3, <<>>, <<>>) >> :
        v \in 0..MaxOperand, b \in 1..2, r \in 0..1}

\* Programs whose instructions address a slot, an up-value or a cell's slot
\* that does not exist, or assign a local on an empty stack.
OutOfRangePrograms ==
    { << Func(<<get_local(2), end>>, 3, <<>>, <<>>) >>,
      << Func(<<pop(1), set_local(0), end>>, 3, <<>>, <<>>) >>,
      << Func(<<set_local(2), end>>, 3, <<>>, <<>>) >>,
      << Func(<<create_closure(0), end>>, 2, <<2>>, <<>>), Getter(Outer(0)) >>,
      << Func(<<push_int_inlined(11), create_closure(0), pop(2), return_(0)>>,
              3, <<2>>, <<>>),
         Getter(Parent(1)) >>,
      << Func(<<create_closure(0), call(1, 0), end>>, 3, <<2>>, <<>>),
         Func(<<push_int_inlined(5), set_upvalue(0), return_(0)>>, 2, <<>>,
              <<Parent(9)>>) >> }

\* The opcodes that read a constant pool of the executing prototype.
ConstantOps ==
    {"PushInt", "PushFloat", "PushString", "PushFunc", "CreateClosure"}

\* op k; End in a prototype whose pools hold one constant each (funcs holds the
\* prototype itself); k = 0 is in every pool, k > 0 in none.
ConstantPrograms ==
    {<< Constants(Func(<<with_arg24(name, k), end>>, 2, <<1>>, <<>>),
                  <<40>>, <<2>>, <<"s">>) >> :
        name \in ConstantOps, k \in 0..MaxConst}

\* The opcodes whose arm of run_op_loop is todo!().
ReservedOps ==
    {"Load", "Store", "SetGlobal", "GetGlobal", "CaptureValue", "Str_Concat", "Str_Slice"}

\* PushIntIn 1; PushIntIn 2; op; End
ReservedPrograms ==
    {<< Func(<<push_int_inlined(1), push_int_inlined(2), Ins(name, NoArg, 0, 0), end>>,
             3, <<>>, <<>>) >> : name \in ReservedOps}

\* The conditional jumps that pop one integer.
JumpOnIntOps ==
    {"JumpNe", "JumpEq", "JumpLt", "JumpLe", "JumpGe", "JumpZero"}

\* A jump with offset d at code index 2, behind its operands: one operand for
\* the jumps that pop one integer, two for JumpGt, none for Jump.  The offsets
\* of Jump reach twice as far: from -4 on its target is negative, from 3 on it
\* is beyond the code.
JumpPrograms ==
    {<< Func(<<noop, x, with_arg24(name, d),
               push_int_inlined(1), push_int_inlined(2), end>>, 4, <<>>, <<>>) >> :
        name \in JumpOnIntOps, x \in Operands, d \in (-MaxJump)..MaxJump}
    \cup {<< Func(<<x, y, with_arg24("JumpGt", d),
                    push_int_inlined(1), push_int_inlined(2), end>>, 4, <<>>, <<>>) >> :
        x \in Operands, y \in Operands, d \in (-MaxJump)..MaxJump}
    \cup {<< Func(<<noop, noop, with_arg24("Jump", d), noop, noop, end>>,
                  4, <<>>, <<>>) >> :
        d \in (-2 * MaxJump)..(2 * MaxJump)}

Programs ==
    {TestBasicMath, TestBasicBranch, TestBasicCall, FallsOff}
    \cup {TestRecursion(k) : k \in 0..MaxFib}
    \cup CallReturnPrograms
    \cup ClosurePrograms
    \cup ArithPrograms
    \cup CallValuePrograms
    \cup OutOfRangePrograms
    \cup ConstantPrograms
    \cup ReservedPrograms
    \cup JumpPrograms

----------------------------------------------------------------------------
(* Interpreter state: src/src/vm.rs *)

\* struct CallFrame.  Two history fields are added: made lists every cell ever
\* pushed into up_values by this frame (up_values itself is drained by Return),
\* entry is the stack length when the frame was installed.
CallFrame(ip, top, base, results, closure, func, entry) ==
    [ip |-> ip, top |-> top, base |-> base, results |-> results,
     closure |-> closure, func |-> func, up_values |-> <<>>,
     made |-> <<>>, entry |-> entry]

\* The value of `frame` while no run_interpreter call is active.
NoFrame ==
    CallFrame(0, 0, 0, 0, 0, 0, 0)

\* The history record of a step.
Step(name) ==
    [step |-> name, frame |-> frame, stack |-> stack]

\* enum FrameAction; kind "None" while run_op_loop is executing.
NoAction ==
    [kind |-> "None", start |-> 0, count |-> 0, base |-> 0, results |-> 0]

FrameActionReturn(start, count) ==
    [kind |-> "Return", start |-> start, count |-> count, base |-> 0, results |-> 0]

FrameActionCall(base, results) ==
    [kind |-> "Call", start |-> 0, count |-> 0, base |-> base, results |-> results]

\* errors::Error of kind Runtime; a and b are the numbers formatted into the message.
Err(msg, a, b) ==
    [msg |-> msg, a |-> a, b |-> b]

NoError ==
    Err("", 0, 0)

\* Vm::new
\* No Arg24 conversion has been made.
NotEncoded ==
    [step |-> "none", from |-> "none", value |-> 0, ok |-> FALSE, arg |-> NoArg, out |-> 0]

\* No object has been allocated.
NoShared ==
    [step |-> "none", held |-> <<>>, strong |-> 0, weak |-> 0, dropped |-> FALSE,
     on |-> "none", some |-> FALSE, had_strong |-> FALSE]

Init ==
    /\ prog \in Programs
    /\ checked \in BOOLEAN
    /\ stack = <<>>
    /\ calls = <<>>
    /\ frame = NoFrame
    /\ action = NoAction
    /\ status = "idle"
    /\ error = NoError
    /\ closures = <<>>
    /\ cells = <<>>
    /\ runs = 0
    /\ last = Step("new")
    /\ encoded = NotEncoded
    /\ shared = NoShared

\* The next state of everything a step of the interpreter can change.
Becomes(name, st, cs, fr, ac, su, er, cl, ce) ==
    /\ last' = Step(name)
    /\ stack' = st
    /\ calls' = cs
    /\ frame' = fr
    /\ action' = ac
    /\ status' = su
    /\ error' = er
    /\ closures' = cl
    /\ cells' = ce
    /\ UNCHANGED <<prog, checked, runs, encoded, shared>>

\* Vm::run_function with the prologue of run_interpreter (CallFrame::new, push).
RunFunction(func) ==
    /\ status \in {"idle", "ok", "err"}
    /\ runs < MaxRuns
    /\ LET closure == Len(closures) + 1
       IN  /\ closures' = Append(closures, Closure(func, <<>>))
           /\ frame' = CallFrame(0, 0, 0, 0, closure, func, Len(stack))
           /\ stack' = Append(stack, from_closure(closure))
    /\ action' = NoAction
    /\ status' = "running"
    /\ error' = NoError
    /\ runs' = runs + 1
    /\ last' = Step("RunFunction")
    /\ UNCHANGED <<prog, checked, calls, cells, encoded, shared>>

\* The code of the prototype the current frame executes.
Code ==
    prog[frame.func].code

\* run_op_loop is executing and the instruction at frame.ip is `name`.
Fetch(name) ==
    /\ status = "running"
    /\ action.kind = "None"
    /\ InBounds(Code, frame.ip)
    /\ At(Code, frame.ip).op = name

\* The fetched instruction and the frame after `frame.ip += 1`.
Op ==
    At(Code, frame.ip)

Advanced ==
    [frame EXCEPT !.ip = @ + 1]

\* The step continues the loop with the new stack.
Continue(name, st) ==
    Becomes(name, st, calls, Advanced, NoAction, "running", NoError, closures, cells)

\* The step leaves run_function with a Runtime error (operator `?`).
Raise(name, st, er) ==
    Becomes(name, st, calls, Advanced, NoAction, "err", er, closures, cells)

\* The step panics.
Panic(name, st, msg) ==
    Becomes(name, st, calls, Advanced, NoAction, "panic", Err(msg, 0, 0), closures, cells)

\* The step breaks out of run_op_loop with a frame action.
Break(name, fr, ac, ce) ==
    Becomes(name, stack, calls, fr, ac, "running", NoError, closures, ce)

\* Mutant of FetchFail: execution wraps around to the first instruction.
FetchFail_Restart ==
    /\ status = "running"
    /\ action.kind = "None"
    /\ ~InBounds(Code, frame.ip)
    /\ Becomes("FetchFail", stack, calls, [frame EXCEPT !.ip = 0], NoAction, "running",
               NoError, closures, cells)

\* code.get(frame.ip) is None
FetchFail ==
    /\ status = "running"
    /\ action.kind = "None"
    /\ ~InBounds(Code, frame.ip)
    /\ Becomes("FetchFail", stack, calls, frame, NoAction, "err",
               Err("instruction pointer out of bytecode bounds", 0, 0), closures, cells)

OpNoOp ==
    /\ Fetch("NoOp")
    /\ Continue("NoOp", stack)

OpPop ==
    /\ Fetch("Pop")
    /\ Continue("Pop", PopN(stack, into_u32(Op.arg)))

OpEnd ==
    /\ Fetch("End")
    /\ Break("End", Advanced, FrameActionReturn(0, 0), cells)

\* Mutant of CloseUpValues: every open cell of the heap is closed, whichever
\* frame created it.
CloseUpValues_All(ce, up_values, st) ==
    [ok |-> TRUE,
     cells |-> [h \in DOMAIN ce |->
                   IF ce[h].t = "Open" /\ InBounds(st, ce[h].off)
                   THEN Closed(At(st, ce[h].off))
                   ELSE ce[h]]]

\* Mutant of CloseUpValues: every open cell is closed with the value of the
\* frame's last slot instead of its own.
CloseUpValues_Top(ce, up_values, st) ==
    [ok |-> st # <<>>,
     cells |-> [h \in DOMAIN ce |->
                   IF (\E i \in 1..Len(up_values) : up_values[i] = h) /\ ce[h].t = "Open"
                   THEN Closed(st[Len(st)])
                   ELSE ce[h]]]

\* Mutant of CloseUpValues: the frame's cells are dropped without being closed.
CloseUpValues_Skip(ce, up_values, st) ==
    [ok |-> TRUE, cells |-> ce]

\* The Return loop over frame.up_values.drain(..): closes every cell that is
\* still open with the value at its stack offset; stops at the first offset
\* outside the stack (index panic).  Yields the cells and whether it completed.
RECURSIVE CloseUpValues(_, _, _)
CloseUpValues(ce, up_values, st) ==
    IF up_values = <<>> THEN [ok |-> TRUE, cells |-> ce]
    ELSE LET h == Head(up_values)
         IN  IF ce[h].t = "Open"
             THEN IF InBounds(st, ce[h].off)
                  THEN CloseUpValues([ce EXCEPT ![h] = Closed(At(st, ce[h].off))],
                                     Tail(up_values), st)
                  ELSE [ok |-> FALSE, cells |-> ce]
             ELSE CloseUpValues(ce, Tail(up_values), st)

\* vm.stack.len() - frame.base - count, as a usize (negative: wrapped).
ReturnStart(len, base, count) ==
    len - base - count

OpReturn ==
    /\ Fetch("Return")
    /\ LET count == Op.a
           closed == CloseUpValues(cells, frame.up_values, stack)
           start == ReturnStart(Len(stack), frame.base, count)
           drained == [Advanced EXCEPT !.up_values = <<>>]
       IN  IF ~closed.ok
           THEN Becomes("Return", stack, calls, drained, NoAction, "panic",
                        Err("index out of bounds", 0, 0), closures, closed.cells)
           ELSE IF start < 0 /\ checked
           THEN Becomes("Return", stack, calls, drained, NoAction, "panic",
                        Err("attempt to subtract with overflow", 0, 0), closures, closed.cells)
           ELSE Break("Return", drained, FrameActionReturn(start, count), closed.cells)

OpCall ==
    /\ Fetch("Call")
    /\ Break("Call", Advanced, FrameActionCall(frame.base + Op.a, Op.b), cells)

\* todo!()
OpLoad ==
    /\ Fetch("Load")
    /\ Panic("Load", stack, "not yet implemented")

\* todo!()
OpStore ==
    /\ Fetch("Store")
    /\ Panic("Store", stack, "not yet implemented")

\* Mutant of OpSetLocal: the assigned value is popped.
OpSetLocal_Popping ==
    /\ Fetch("SetLocal")
    /\ LET slot == frame.base + Op.a
       IN  IF stack = <<>>
           THEN Raise("SetLocal", stack, Err("stack underflow", 0, 0))
           ELSE IF ~InBounds(stack, slot)
           THEN Panic("SetLocal", stack, "index out of bounds")
           ELSE Continue("SetLocal", PopN(Put(stack, slot, stack[Len(stack)]), 1))

OpSetLocal ==
    /\ Fetch("SetLocal")
    /\ LET slot == frame.base + Op.a
       IN  IF stack = <<>>
           THEN Raise("SetLocal", stack, Err("stack underflow", 0, 0))
           ELSE IF ~InBounds(stack, slot)
           THEN Panic("SetLocal", stack, "index out of bounds")
           ELSE Continue("SetLocal", Put(stack, slot, stack[Len(stack)]))

OpGetLocal ==
    /\ Fetch("GetLocal")
    /\ LET slot == frame.base + Op.a
       IN  IF ~InBounds(stack, slot)
           THEN Panic("GetLocal", stack, "index out of bounds")
           ELSE Continue("GetLocal", Append(stack, At(stack, slot)))

OpPushIntIn ==
    /\ Fetch("PushIntIn")
    /\ Continue("PushIntIn", Append(stack, IntV(into_i64(Op.arg))))

\* todo!()
OpSetGlobal ==
    /\ Fetch("SetGlobal")
    /\ Panic("SetGlobal", stack, "not yet implemented")

\* todo!()
OpGetGlobal ==
    /\ Fetch("GetGlobal")
    /\ Panic("GetGlobal", stack, "not yet implemented")

OpPushInt ==
    /\ Fetch("PushInt")
    /\ LET const_id == into_usize(Op.arg)
           ints == prog[frame.func].ints
       IN  IF ~InBounds(ints, const_id)
           THEN Raise("PushInt", stack, Err("no integer constant defined", const_id, 0))
           ELSE Continue("PushInt", Append(stack, IntV(At(ints, const_id))))

\* todo!()
OpPushFloat ==
    /\ Fetch("PushFloat")
    /\ Panic("PushFloat", stack, "not yet implemented")

\* todo!()
OpPushString ==
    /\ Fetch("PushString")
    /\ Panic("PushString", stack, "not yet implemented")

OpPushFunc ==
    /\ Fetch("PushFunc")
    /\ LET const_id == into_usize(Op.arg)
           funcs == prog[frame.func].funcs
       IN  IF ~InBounds(funcs, const_id)
           THEN Raise("PushFunc", stack, Err("no function found at constant", const_id, 0))
           ELSE Continue("PushFunc", Append(stack, from_func(At(funcs, const_id))))

\* The up-value handles of the closure the current frame executes.
FrameUpValues ==
    closures[frame.closure].up_values

\* Mutant of OpSetUpValue: a write through an Open cell closes the cell over
\* the value and leaves the stack slot as it was.
OpSetUpValue_Closing ==
    /\ Fetch("SetUpValue")
    /\ IF stack = <<>>
       THEN Raise("SetUpValue", stack, Err("stack underflow", 0, 0))
       ELSE LET value == stack[Len(stack)]
                popped == PopN(stack, 1)
            IN  IF ~InBounds(FrameUpValues, Op.a)
                THEN Raise("SetUpValue", popped, Err("up-value not found", 0, 0))
                ELSE Becomes("SetUpValue", popped, calls, Advanced, NoAction,
                             "running", NoError, closures,
                             [cells EXCEPT ![At(FrameUpValues, Op.a)] = Closed(value)])

OpSetUpValue ==
    /\ Fetch("SetUpValue")
    /\ IF stack = <<>>
       THEN Raise("SetUpValue", stack, Err("stack underflow", 0, 0))
       ELSE LET value == stack[Len(stack)]
                popped == PopN(stack, 1)
            IN  IF ~InBounds(FrameUpValues, Op.a)
                THEN Raise("SetUpValue", popped, Err("up-value not found", 0, 0))
                ELSE LET h == At(FrameUpValues, Op.a)
                     IN  IF cells[h].t = "Open"
                         THEN IF InBounds(popped, cells[h].off)
                              THEN Continue("SetUpValue", Put(popped, cells[h].off, value))
                              ELSE Panic("SetUpValue", popped, "index out of bounds")
                         ELSE Becomes("SetUpValue", popped, calls, Advanced, NoAction,
                                      "running", NoError, closures,
                                      [cells EXCEPT ![h] = Closed(value)])

OpGetUpValue ==
    /\ Fetch("GetUpValue")
    /\ IF ~InBounds(FrameUpValues, Op.a)
       THEN Raise("GetUpValue", stack, Err("up-value not found", 0, 0))
       ELSE LET h == At(FrameUpValues, Op.a)
            IN  IF cells[h].t = "Open"
                THEN IF InBounds(stack, cells[h].off)
                     THEN Continue("GetUpValue", Append(stack, At(stack, cells[h].off)))
                     ELSE Panic("GetUpValue", stack, "index out of bounds")
                ELSE Continue("GetUpValue", Append(stack, cells[h].val))

\* todo!()
OpCaptureValue ==
    /\ Fetch("CaptureValue")
    /\ Panic("CaptureValue", stack, "not yet implemented")

\* Mutant of CaptureUpValues: an Outer origin gets a cell of its own, a copy
\* of the parent's.
RECURSIVE CaptureUpValues_Copy(_, _, _, _, _, _)
CaptureUpValues_Copy(origins, base, parent_upvalues, ce, upvalues, pushed) ==
    IF origins = <<>>
    THEN [ok |-> TRUE, cells |-> ce, upvalues |-> upvalues, pushed |-> pushed]
    ELSE LET origin == Head(origins)
             h == Len(ce) + 1
         IN  IF origin.t = "Parent"
             THEN CaptureUpValues_Copy(Tail(origins), base, parent_upvalues,
                                       Append(ce, Open(base + origin.i)),
                                       Append(upvalues, h), Append(pushed, h))
             ELSE IF InBounds(parent_upvalues, origin.i)
             THEN CaptureUpValues_Copy(Tail(origins), base, parent_upvalues,
                                       Append(ce, ce[At(parent_upvalues, origin.i)]),
                                       Append(upvalues, h), pushed)
             ELSE [ok |-> FALSE, cells |-> ce, upvalues |-> upvalues, pushed |-> pushed]

\* Mutant of CaptureUpValues: a Parent origin's cell holds the local's slot
\* number, not its absolute offset.
RECURSIVE CaptureUpValues_Relative(_, _, _, _, _, _)
CaptureUpValues_Relative(origins, base, parent_upvalues, ce, upvalues, pushed) ==
    IF origins = <<>>
    THEN [ok |-> TRUE, cells |-> ce, upvalues |-> upvalues, pushed |-> pushed]
    ELSE LET origin == Head(origins)
             h == Len(ce) + 1
         IN  IF origin.t = "Parent"
             THEN CaptureUpValues_Relative(Tail(origins), base, parent_upvalues,
                                           Append(ce, Open(origin.i)),
                                           Append(upvalues, h), Append(pushed, h))
             ELSE IF InBounds(parent_upvalues, origin.i)
             THEN CaptureUpValues_Relative(Tail(origins), base, parent_upvalues, ce,
                                           Append(upvalues, At(parent_upvalues, origin.i)),
                                           pushed)
             ELSE [ok |-> FALSE, cells |-> ce, upvalues |-> upvalues, pushed |-> pushed]

\* The CreateClosure loop over func.up_values: Parent allocates a cell
\* Open(base + local_id) and pushes its handle into the new closure's vector and
\* into frame.up_values; Outer clones the handle parent_upvalues[upvalue_id]
\* (index panic when it is out of range).  Yields the cells, the new closure's
\* vector, the handles pushed into frame.up_values, and whether it completed.
RECURSIVE CaptureUpValues(_, _, _, _, _, _)
CaptureUpValues(origins, base, parent_upvalues, ce, upvalues, pushed) ==
    IF origins = <<>>
    THEN [ok |-> TRUE, cells |-> ce, upvalues |-> upvalues, pushed |-> pushed]
    ELSE LET origin == Head(origins)
             h == Len(ce) + 1
         IN  IF origin.t = "Parent"
             THEN CaptureUpValues(Tail(origins), base, parent_upvalues,
                                  Append(ce, Open(base + origin.i)),
                                  Append(upvalues, h), Append(pushed, h))
             ELSE IF InBounds(parent_upvalues, origin.i)
             THEN CaptureUpValues(Tail(origins), base, parent_upvalues, ce,
                                  Append(upvalues, At(parent_upvalues, origin.i)), pushed)
             ELSE [ok |-> FALSE, cells |-> ce, upvalues |-> upvalues, pushed |-> pushed]

OpCreateClosure ==
    /\ Fetch("CreateClosure")
    /\ LET func_id == into_usize(Op.arg)
           funcs == prog[frame.func].funcs
       IN  IF ~InBounds(funcs, func_id)
           THEN Raise("CreateClosure", stack, Err("constant not found", 0, 0))
           ELSE LET func == At(funcs, func_id)
                    cap == CaptureUpValues(prog[func].up_values, frame.base,
                                           FrameUpValues, cells, <<>>, <<>>)
                    fr == [Advanced EXCEPT !.up_values = @ \o cap.pushed,
                                           !.made = @ \o cap.pushed]
                IN  IF ~cap.ok
                    THEN Becomes("CreateClosure", stack, calls, fr, NoAction, "panic",
                                 Err("index out of bounds", 0, 0), closures, cap.cells)
                    ELSE Becomes("CreateClosure",
                                 Append(stack, from_closure(Len(closures) + 1)),
                                 calls, fr, NoAction, "running", NoError,
                                 Append(closures, Closure(func, cap.upvalues)), cap.cells)

\* Vm::pop_int: yields the popped integer, the stack left, and the error if any.
pop_int(st) ==
    IF st = <<>>
    THEN [ok |-> FALSE, msg |-> "stack underflow", a |-> 0, st |-> st]
    ELSE IF ~as_int(st[Len(st)]).some
    THEN [ok |-> FALSE, msg |-> "integer value expected", a |-> 0, st |-> PopN(st, 1)]
    ELSE [ok |-> TRUE, msg |-> "", a |-> as_int(st[Len(st)]).v, st |-> PopN(st, 1)]

\* Vm::pop2_int: pops b, then a.
pop2_int(st) ==
    LET b == pop_int(st)
        a == pop_int(b.st)
    IN  IF ~b.ok THEN [ok |-> FALSE, msg |-> b.msg, a |-> 0, b |-> 0, st |-> b.st]
        ELSE IF ~a.ok THEN [ok |-> FALSE, msg |-> a.msg, a |-> 0, b |-> 0, st |-> a.st]
        ELSE [ok |-> TRUE, msg |-> "", a |-> a.a, b |-> b.a, st |-> a.st]

\* Mutant of OpIntAdd: the sum is pushed on top of its operands.
OpIntAdd_NoPop ==
    /\ Fetch("Int_Add")
    /\ LET p == pop2_int(stack)
       IN  IF ~p.ok THEN Raise("Int_Add", p.st, Err(p.msg, 0, 0))
           ELSE Continue("Int_Add", Append(stack, IntV(p.a + p.b)))

OpIntAdd ==
    /\ Fetch("Int_Add")
    /\ LET p == pop2_int(stack)
       IN  IF ~p.ok THEN Raise("Int_Add", p.st, Err(p.msg, 0, 0))
           ELSE Continue("Int_Add", Append(p.st, IntV(p.a + p.b)))

OpIntSub ==
    /\ Fetch("Int_Sub")
    /\ LET p == pop2_int(stack)
       IN  IF ~p.ok THEN Raise("Int_Sub", p.st, Err(p.msg, 0, 0))
           ELSE Continue("Int_Sub", Append(p.st, IntV(p.a - p.b)))

OpIntLt ==
    /\ Fetch("Int_Lt")
    /\ LET p == pop2_int(stack)
       IN  IF ~p.ok THEN Raise("Int_Lt", p.st, Err(p.msg, 0, 0))
           ELSE Continue("Int_Lt", Append(p.st, from_bool(p.a < p.b)))

\* Rust's integer division truncates toward zero, and % is its remainder.
TruncDiv(a, b) ==
    LET abs(x) == IF x < 0 THEN -x ELSE x
        q == abs(a) \div abs(b)
    IN  IF (a < 0) = (b < 0) THEN q ELSE -q

Rem(a, b) ==
    a - b * TruncDiv(a, b)

\* What an Int opcode pushes for the operands a and b: the i64 operators of the
\* arithmetic arms and the from_bool of the comparison arms.
int_result(name, a, b) ==
    CASE name = "Int_Add" -> IntV(a + b)
      [] name = "Int_Sub" -> IntV(a - b)
      [] name = "Int_Mul" -> IntV(a * b)
      [] name = "Int_Div" -> IntV(TruncDiv(a, b))
      [] name = "Int_Mod" -> IntV(Rem(a, b))
      [] name = "Int_Ne" -> from_bool(a # b)
      [] name = "Int_Eq" -> from_bool(a = b)
      [] name = "Int_Lt" -> from_bool(a < b)
      [] name = "Int_Le" -> from_bool(a <= b)
      [] name = "Int_Gt" -> from_bool(a > b)
      [] name = "Int_Ge" -> from_bool(a >= b)

\* An Int opcode `let [a, b] = vm.pop2_int()?; vm.stack.push(..)`.  The integer
\* operators / and % panic on a zero divisor.
IntBinary(name) ==
    LET p == pop2_int(stack)
    IN  IF ~p.ok THEN Raise(name, p.st, Err(p.msg, 0, 0))
           ELSE IF name \in {"Int_Div", "Int_Mod"} /\ p.b = 0
           THEN Panic(name, p.st,
                      IF name = "Int_Div"
                      THEN "attempt to divide by zero"
                      ELSE "attempt to calculate the remainder with a divisor of zero")
           ELSE Continue(name, Append(p.st, int_result(name, p.a, p.b)))

OpIntMul ==
    /\ Fetch("Int_Mul")
    /\ IntBinary("Int_Mul")

OpIntDiv ==
    /\ Fetch("Int_Div")
    /\ IntBinary("Int_Div")

OpIntMod ==
    /\ Fetch("Int_Mod")
    /\ IntBinary("Int_Mod")

OpIntNe ==
    /\ Fetch("Int_Ne")
    /\ IntBinary("Int_Ne")

OpIntEq ==
    /\ Fetch("Int_Eq")
    /\ IntBinary("Int_Eq")

OpIntLe ==
    /\ Fetch("Int_Le")
    /\ IntBinary("Int_Le")

OpIntGt ==
    /\ Fetch("Int_Gt")
    /\ IntBinary("Int_Gt")

OpIntGe ==
    /\ Fetch("Int_Ge")
    /\ IntBinary("Int_Ge")

\* Op::Int_Neg reads and writes vm.stack[frame.ip], ip being already advanced.
OpIntNeg ==
    /\ Fetch("Int_Neg")
    /\ LET i == frame.ip + 1
       IN  IF ~InBounds(stack, i) THEN Panic("Int_Neg", stack, "index out of bounds")
           ELSE IF ~as_int(At(stack, i)).some
           THEN Raise("Int_Neg", stack, Err("integer value expected", 0, 0))
           ELSE Continue("Int_Neg", Put(stack, i, IntV(-as_int(At(stack, i)).v)))

\* Vm::pop2_float: pops b, then a.
pop2_float(st) ==
    LET none == [ok |-> FALSE, msg |-> "stack underflow", a |-> 0, b |-> 0, st |-> st]
    IN  IF st = <<>> THEN none
        ELSE IF ~as_float(st[Len(st)]).some
        THEN [none EXCEPT !.msg = "float value expected", !.st = PopN(st, 1)]
        ELSE IF Len(st) = 1 THEN [none EXCEPT !.st = <<>>]
        ELSE IF ~as_float(st[Len(st) - 1]).some
        THEN [none EXCEPT !.msg = "float value expected", !.st = PopN(st, 2)]
        ELSE [ok |-> TRUE, msg |-> "", a |-> as_float(st[Len(st) - 1]).v,
              b |-> as_float(st[Len(st)]).v, st |-> PopN(st, 2)]

\* What a Float opcode pushes for the operands a and b (integer-valued floats;
\* the quotient and remainder are exact only when b divides a).
float_result(name, a, b) ==
    CASE name = "Float_Add" -> FloatV(a + b)
      [] name = "Float_Sub" -> FloatV(a - b)
      [] name = "Float_Mul" -> FloatV(a * b)
      [] name = "Float_Div" -> FloatV(TruncDiv(a, b))
      [] name = "Float_Mod" -> FloatV(Rem(a, b))
      [] name = "Float_Ne" -> from_bool(a # b)
      [] name = "Float_Eq" -> from_bool(a = b)
      [] name = "Float_Lt" -> from_bool(a < b)
      [] name = "Float_Le" -> from_bool(a <= b)
      [] name = "Float_Gt" -> from_bool(a > b)
      [] name = "Float_Ge" -> from_bool(a >= b)

\* A Float opcode `let [a, b] = vm.pop2_float()?; vm.stack.push(..)`.
FloatBinary(name) ==
    LET p == pop2_float(stack)
    IN  IF ~p.ok THEN Raise(name, p.st, Err(p.msg, 0, 0))
           ELSE Continue(name, Append(p.st, float_result(name, p.a, p.b)))

OpFloatAdd ==
    /\ Fetch("Float_Add")
    /\ FloatBinary("Float_Add")

OpFloatSub ==
    /\ Fetch("Float_Sub")
    /\ FloatBinary("Float_Sub")

OpFloatMul ==
    /\ Fetch("Float_Mul")
    /\ FloatBinary("Float_Mul")

OpFloatDiv ==
    /\ Fetch("Float_Div")
    /\ FloatBinary("Float_Div")

OpFloatMod ==
    /\ Fetch("Float_Mod")
    /\ FloatBinary("Float_Mod")

OpFloatNe ==
    /\ Fetch("Float_Ne")
    /\ FloatBinary("Float_Ne")

OpFloatEq ==
    /\ Fetch("Float_Eq")
    /\ FloatBinary("Float_Eq")

OpFloatLt ==
    /\ Fetch("Float_Lt")
    /\ FloatBinary("Float_Lt")

OpFloatLe ==
    /\ Fetch("Float_Le")
    /\ FloatBinary("Float_Le")

OpFloatGt ==
    /\ Fetch("Float_Gt")
    /\ FloatBinary("Float_Gt")

OpFloatGe ==
    /\ Fetch("Float_Ge")
    /\ FloatBinary("Float_Ge")

\* Op::Float_Neg reads and writes vm.stack[frame.ip], ip being already advanced.
OpFloatNeg ==
    /\ Fetch("Float_Neg")
    /\ LET i == frame.ip + 1
       IN  IF ~InBounds(stack, i) THEN Panic("Float_Neg", stack, "index out of bounds")
           ELSE IF ~as_float(At(stack, i)).some
           THEN Raise("Float_Neg", stack, Err("float value expected", 0, 0))
           ELSE Continue("Float_Neg", Put(stack, i, FloatV(-as_float(At(stack, i)).v)))

\* todo!()
OpStrConcat ==
    /\ Fetch("Str_Concat")
    /\ Panic("Str_Concat", stack, "not yet implemented")

\* todo!()
OpStrSlice ==
    /\ Fetch("Str_Slice")
    /\ Panic("Str_Slice", stack, "not yet implemented")

\* Mutant of jump: the offset is applied to the index of the jump instruction.
jump_FromInstruction(fr, offset) ==
    [fr EXCEPT !.ip = @ - 1 + offset]

\* CallFrame::jump, applied to the frame whose ip was already advanced.
jump(fr, offset) ==
    [fr EXCEPT !.ip = @ + offset]

\* Mutant of jump_taken: every conditional jump branches on a positive value.
jump_taken_Positive(name, v) ==
    v > 0

\* The condition on the popped integer under which a jump branches.
jump_taken(name, v) ==
    CASE name = "JumpNe" -> v # 0
      [] name = "JumpEq" -> v = 0
      [] name = "JumpLt" -> v < 0
      [] name = "JumpLe" -> v <= 0
      [] name = "JumpGe" -> v >= 0

\* A jump arm `if vm.pop_int()? <cond> 0 { frame.jump(addr.into_i64()) }`
JumpOnInt(name) ==
    LET p == pop_int(stack)
    IN  IF ~p.ok THEN Raise(name, p.st, Err(p.msg, 0, 0))
        ELSE Becomes(name, p.st, calls,
                     IF jump_taken(name, p.a)
                     THEN jump(Advanced, into_i64(Op.arg)) ELSE Advanced,
                     NoAction, "running", NoError, closures, cells)

OpJumpNe ==
    /\ Fetch("JumpNe")
    /\ JumpOnInt("JumpNe")

OpJumpEq ==
    /\ Fetch("JumpEq")
    /\ JumpOnInt("JumpEq")

OpJumpLt ==
    /\ Fetch("JumpLt")
    /\ JumpOnInt("JumpLt")

OpJumpLe ==
    /\ Fetch("JumpLe")
    /\ JumpOnInt("JumpLe")

OpJumpGe ==
    /\ Fetch("JumpGe")
    /\ JumpOnInt("JumpGe")

OpJump ==
    /\ Fetch("Jump")
    /\ Becomes("Jump", stack, calls, jump(Advanced, into_i64(Op.arg)),
               NoAction, "running", NoError, closures, cells)

OpJumpGt ==
    /\ Fetch("JumpGt")
    /\ LET p == pop2_int(stack)
       IN  IF ~p.ok THEN Raise("JumpGt", p.st, Err(p.msg, 0, 0))
           ELSE Becomes("JumpGt", p.st, calls,
                        IF p.a > p.b THEN jump(Advanced, into_i64(Op.arg)) ELSE Advanced,
                        NoAction, "running", NoError, closures, cells)

OpJumpZero ==
    /\ Fetch("JumpZero")
    /\ LET p == pop_int(stack)
       IN  IF ~p.ok THEN Raise("JumpZero", p.st, Err(p.msg, 0, 0))
           ELSE Becomes("JumpZero", p.st, calls,
                        IF p.a = 0 THEN jump(Advanced, into_i64(Op.arg)) ELSE Advanced,
                        NoAction, "running", NoError, closures, cells)

\* The copy loop of the Return arm: stack[offset] = stack[start + offset] for
\* offset in done..result_count-1, on the callee's span that begins at base.
RECURSIVE CopyResults(_, _, _, _, _)
CopyResults(st, base, start, done, result_count) ==
    IF done >= result_count THEN st
    ELSE CopyResults(Put(st, base + done, At(st, base + start + done)),
                     base, start, done + 1, result_count)

\* Mutant of OutermostStack: the results are popped, the rest is left.
OutermostStack_Keep(st, count, base) ==
    PopN(st, count)

\* The outermost return: pops the count results, then truncates to the base.
OutermostStack(st, count, base) ==
    Truncate(PopN(st, count), base)

\* run_interpreter, arm FrameAction::Return { start, count }, as the outcome it
\* has in the current state: the status and error it ends with, the stack it
\* leaves, and whether it resumed the caller (frame = vm.calls.pop()).
ReturnArm(start, count) ==
    LET result_count == IF frame.results < count THEN frame.results ELSE count
        stack_size == prog[frame.func].stack_size
        sum == start + result_count
        panic(msg) == [status |-> "panic", error |-> Err(msg, 0, 0),
                       stack |-> stack, resumed |-> FALSE]
        raise(er) == [status |-> "err", error |-> er, stack |-> stack, resumed |-> FALSE]
    IN  IF ~InBounds(stack, frame.base)
        THEN panic("index out of bounds")
        ELSE IF calls = <<>>
        THEN [status |-> "ok", error |-> NoError,
              stack |-> OutermostStack(stack, count, frame.base), resumed |-> FALSE]
        ELSE IF frame.results > count
        THEN raise(Err("caller expected results, but callee only returned",
                       frame.results, count))
        ELSE IF frame.base + stack_size > Len(stack)
        THEN panic("range end index out of range")
        ELSE IF start < 0 /\ sum >= 0 /\ checked
        THEN panic("attempt to add with overflow")
        ELSE IF sum < 0 \/ sum > stack_size
        THEN raise(Err("returned results overflow stack", 0, 0))
        ELSE IF start < 0 /\ result_count > 0
        THEN panic("index out of bounds")
        ELSE [status |-> "running", error |-> NoError,
              stack |-> Truncate(CopyResults(stack, frame.base, start, 0, result_count),
                                 frame.base + result_count),
              resumed |-> TRUE]

\* Mutant of FrameReturn: the resumed caller has lost its open-cell list.
FrameReturn_Forgetful ==
    /\ status = "running"
    /\ action.kind = "Return"
    /\ LET out == ReturnArm(action.start, action.count)
       IN  Becomes("FrameReturn", out.stack,
                   IF out.resumed THEN SubSeq(calls, 1, Len(calls) - 1) ELSE calls,
                   IF out.resumed
                   THEN [calls[Len(calls)] EXCEPT !.up_values = <<>>] ELSE frame,
                   IF out.status = "panic" THEN action ELSE NoAction,
                   out.status, out.error, closures, cells)

\* run_interpreter, arm FrameAction::Return
FrameReturn ==
    /\ status = "running"
    /\ action.kind = "Return"
    /\ LET out == ReturnArm(action.start, action.count)
       IN  Becomes("FrameReturn", out.stack,
                   IF out.resumed THEN SubSeq(calls, 1, Len(calls) - 1) ELSE calls,
                   IF out.resumed THEN calls[Len(calls)] ELSE frame,
                   IF out.status = "panic" THEN action ELSE NoAction,
                   out.status, out.error, closures, cells)

\* Mutant of FrameCall: the callable is not verified; a value that is no
\* closure is entered as if it were the caller's own closure.
FrameCall_Unverified ==
    /\ status = "running"
    /\ action.kind = "Call"
    /\ LET callee_base == action.base
       IN  IF ~InBounds(stack, callee_base)
           THEN Becomes("FrameCall", stack, calls, frame, action, "panic",
                        Err("index out of bounds", 0, 0), closures, cells)
           ELSE LET closure == as_closure(At(stack, callee_base))
                    entered == IF closure.some THEN closure.v ELSE frame.closure
                IN  Becomes("FrameCall", stack, Append(calls, frame),
                            CallFrame(0, 1, callee_base, action.results,
                                      entered, closures[entered].func, Len(stack)),
                            NoAction, "running", NoError, closures, cells)

\* run_interpreter, arm FrameAction::Call
FrameCall ==
    /\ status = "running"
    /\ action.kind = "Call"
    /\ LET callee_base == action.base
       IN  IF ~InBounds(stack, callee_base)
           THEN Becomes("FrameCall", stack, calls, frame, action, "panic",
                        Err("index out of bounds", 0, 0), closures, cells)
           ELSE LET closure == as_closure(At(stack, callee_base))
                IN  IF ~closure.some
                    THEN Becomes("FrameCall", stack, calls, frame, NoAction, "err",
                                 Err("closure value expected", 0, 0), closures, cells)
                    ELSE Becomes("FrameCall", stack, Append(calls, frame),
                                 CallFrame(0, 1, callee_base, action.results,
                                           closure.v, closures[closure.v].func,
                                           Len(stack)),
                                 NoAction, "running", NoError, closures, cells)

Next ==
    \/ \E func \in 1..Len(prog) : RunFunction(func)
    \/ FetchFail
    \/ OpNoOp
    \/ OpPop
    \/ OpEnd
    \/ OpReturn
    \/ OpCall
    \/ OpLoad
    \/ OpStore
    \/ OpSetLocal
    \/ OpGetLocal
    \/ OpSetUpValue
    \/ OpGetUpValue
    \/ OpPushIntIn
    \/ OpSetGlobal
    \/ OpGetGlobal
    \/ OpPushInt
    \/ OpPushFloat
    \/ OpPushString
    \/ OpPushFunc
    \/ OpCaptureValue
    \/ OpCreateClosure
    \/ OpIntAdd
    \/ OpIntSub
    \/ OpIntLt
    \/ OpIntMul
    \/ OpIntDiv
    \/ OpIntMod
    \/ OpIntNe
    \/ OpIntEq
    \/ OpIntLe
    \/ OpIntGt
    \/ OpIntGe
    \/ OpIntNeg
    \/ OpFloatAdd
    \/ OpFloatSub
    \/ OpFloatMul
    \/ OpFloatDiv
    \/ OpFloatMod
    \/ OpFloatNe
    \/ OpFloatEq
    \/ OpFloatLt
    \/ OpFloatLe
    \/ OpFloatGt
    \/ OpFloatGe
    \/ OpFloatNeg
    \/ OpStrConcat
    \/ OpStrSlice
    \/ OpJumpNe
    \/ OpJumpEq
    \/ OpJumpLt
    \/ OpJumpLe
    \/ OpJumpGe
    \/ OpJump
    \/ OpJumpGt
    \/ OpJumpZero
    \/ FrameReturn
    \/ FrameCall

Spec ==
    Init /\ [][Next]_vars

----------------------------------------------------------------------------
(* The Arg24 conversions on their own: the host encodes an operand and      *)
(* decodes it again.                                                        *)

\* The inputs: the integers within MaxSpan of zero and of plus and minus each
\* byte boundary of the operand, the 24-bit limits among them.
ArgInputs ==
    {sign * pivot + d : sign \in {-1, 1},
                        pivot \in {0, 256, 65536, 8388608, 16777216},
                        d \in (-MaxSpan)..MaxSpan}

ArgInit ==
    /\ prog = TestBasicMath
    /\ checked = FALSE
    /\ stack = <<>>
    /\ calls = <<>>
    /\ frame = NoFrame
    /\ action = NoAction
    /\ status = "idle"
    /\ error = NoError
    /\ closures = <<>>
    /\ cells = <<>>
    /\ runs = 0
    /\ last = Step("new")
    /\ encoded = NotEncoded
    /\ shared = NoShared

\* The Vm is not touched by a conversion.
VmUnchanged ==
    UNCHANGED <<prog, checked, stack, calls, frame, action, status, error,
                closures, cells, runs, last>>

\* The Result<Arg24> of a conversion of value.
Encoded(from, value, result) ==
    [step |-> "encoded", from |-> from, value |-> value,
     ok |-> result.ok, arg |-> result.arg, out |-> 0]

FromI64 ==
    /\ encoded.step = "none"
    /\ \E value \in ArgInputs : encoded' = Encoded("from_i64", value, from_i64(value))
    /\ VmUnchanged
    /\ UNCHANGED shared

FromI32 ==
    /\ encoded.step = "none"
    /\ \E value \in ArgInputs : encoded' = Encoded("from_i32", value, from_i32(value))
    /\ VmUnchanged
    /\ UNCHANGED shared

\* A u32 is not negative.
FromU32 ==
    /\ encoded.step = "none"
    /\ \E value \in {u \in ArgInputs : u >= 0} :
           encoded' = Encoded("from_u32", value, from_u32(value))
    /\ VmUnchanged
    /\ UNCHANGED shared

\* The conversions back apply to an Arg24, the Ok of an encoder.
IntoI64 ==
    /\ encoded.step = "encoded"
    /\ encoded.ok
    /\ encoded' = [encoded EXCEPT !.step = "into_i64", !.out = into_i64(encoded.arg)]
    /\ VmUnchanged
    /\ UNCHANGED shared

IntoU32 ==
    /\ encoded.step = "encoded"
    /\ encoded.ok
    /\ encoded' = [encoded EXCEPT !.step = "into_u32", !.out = into_u32(encoded.arg)]
    /\ VmUnchanged
    /\ UNCHANGED shared

IntoUsize ==
    /\ encoded.step = "encoded"
    /\ encoded.ok
    /\ encoded' = [encoded EXCEPT !.step = "into_usize", !.out = into_usize(encoded.arg)]
    /\ VmUnchanged
    /\ UNCHANGED shared

ArgNext ==
    \/ FromI64
    \/ FromI32
    \/ FromU32
    \/ IntoI64
    \/ IntoU32
    \/ IntoUsize

ArgSpec ==
    ArgInit /\ [][ArgNext]_vars

----------------------------------------------------------------------------
(* Reference counted handles: src/src/handle.rs.  The host holds Shared<T>  *)
(* values, each a Strong(Handle<T>) or a Weak(Weak<T>), to one object; the  *)
(* object's Rc keeps a strong and a weak count and drops the object when    *)
(* the strong count reaches zero.                                           *)

HandleInit ==
    /\ prog = TestBasicMath
    /\ checked = FALSE
    /\ stack = <<>>
    /\ calls = <<>>
    /\ frame = NoFrame
    /\ action = NoAction
    /\ status = "idle"
    /\ error = NoError
    /\ closures = <<>>
    /\ cells = <<>>
    /\ runs = 0
    /\ last = Step("new")
    /\ encoded = NotEncoded
    /\ shared = NoShared

\* The handles left when the one at position i is dropped.
Without(held, i) ==
    SubSeq(held, 1, i - 1) \o SubSeq(held, i + 1, Len(held))

\* Some handle the host holds is a Strong one.
HoldsStrong(held) ==
    \E j \in 1..Len(held) : held[j] = "Strong"

\* The record of a call made on the handle at position i.
Called(name, i) ==
    [shared EXCEPT !.step = name, !.on = shared.held[i],
                   !.had_strong = HoldsStrong(shared.held), !.some = FALSE]

\* Mutant of Downgraded: the weak handle is a second owner of the object.
Downgraded_Owning(sh) ==
    [sh EXCEPT !.held = Append(@, "Weak"), !.weak = @ + 1, !.strong = @ + 1]

\* Handle::downgrade, Rc::downgrade (and the clone of a Weak): one more weak
\* reference, held by the host as a Weak.
Downgraded(sh) ==
    [sh EXCEPT !.held = Append(@, "Weak"), !.weak = @ + 1]

\* Handle::clone, Rc::clone (and a Weak upgrade that succeeds): one more
\* strong reference, held by the host as a Strong.
Cloned(sh) ==
    [sh EXCEPT !.held = Append(@, "Strong"), !.strong = @ + 1, !.some = TRUE]

\* Handle::new
HandleNew ==
    /\ shared.step = "none"
    /\ shared' = [NoShared EXCEPT !.step = "new", !.held = <<"Strong">>, !.strong = 1]
    /\ VmUnchanged
    /\ UNCHANGED encoded

\* Handle::clone on the handle of a Strong
HandleClone ==
    /\ Len(shared.held) < MaxHandles
    /\ \E i \in 1..Len(shared.held) :
           /\ shared.held[i] = "Strong"
           /\ shared' = Cloned(Called("clone", i))
    /\ VmUnchanged
    /\ UNCHANGED encoded

\* Shared::downgrade: Strong(handle) => handle.downgrade(), Weak(weak) =>
\* Weak(weak.0.clone())
SharedDowngrade ==
    /\ Len(shared.held) < MaxHandles
    /\ \E i \in 1..Len(shared.held) : shared' = Downgraded(Called("downgrade", i))
    /\ VmUnchanged
    /\ UNCHANGED encoded

\* Shared::upgrade: Strong(handle) => Some(handle.clone()), Weak(weak) =>
\* weak.0.upgrade(), which is None when the strong count is zero.
SharedUpgrade ==
    /\ Len(shared.held) < MaxHandles
    /\ \E i \in 1..Len(shared.held) :
           shared' = IF shared.held[i] = "Strong" \/ shared.strong > 0
                     THEN Cloned(Called("upgrade", i))
                     ELSE Called("upgrade", i)
    /\ VmUnchanged
    /\ UNCHANGED encoded

\* Dropping a handle: a Strong gives up a strong reference and the object is
\* dropped with the last of them; a Weak gives up a weak reference.
Drop ==
    /\ \E i \in 1..Len(shared.held) :
           shared' = IF shared.held[i] = "Strong"
                     THEN [Called("drop", i) EXCEPT !.held = Without(@, i),
                                                    !.strong = @ - 1,
                                                    !.dropped = (shared.strong = 1)]
                     ELSE [Called("drop", i) EXCEPT !.held = Without(@, i),
                                                    !.weak = @ - 1]
    /\ VmUnchanged
    /\ UNCHANGED encoded

HandleNext ==
    \/ HandleNew
    \/ HandleClone
    \/ SharedDowngrade
    \/ SharedUpgrade
    \/ Drop

HandleSpec ==
    HandleInit /\ [][HandleNext]_vars

----------------------------------------------------------------------------
(* The size of an instruction: the layout of enum Op, src/src/op.rs *)

\* The variants of enum Op that carry one Arg24.
Arg24Ops ==
    {"Pop", "PushIntIn", "PushInt", "PushFloat", "PushString", "PushFunc",
     "CreateClosure", "JumpNe", "JumpEq", "JumpLt", "JumpLe", "JumpGt", "JumpGe",
     "JumpZero", "Jump"}

\* Every variant of enum Op.
Variants ==
    {"NoOp", "End", "Return", "Call", "Load", "Store", "SetLocal", "GetLocal",
     "SetUpValue", "GetUpValue", "SetGlobal", "GetGlobal", "CaptureValue",
     "Str_Concat", "Str_Slice"}
    \cup Arg24Ops \cup ArithOps

\* The types of the fields a variant declares.
Fields(name) ==
    CASE name \in Arg24Ops -> <<"Arg24">>
      [] name = "Return" -> <<"u8">>
      [] name \in {"Call", "Load", "Store"} -> <<"u8", "u16">>
      [] name \in {"SetLocal", "GetLocal", "SetUpValue", "GetUpValue",
                   "SetGlobal", "GetGlobal"} -> <<"u16">>
      [] name = "CaptureValue" -> <<"UpValueOrigin">>
      [] OTHER -> <<>>

RoundUp(n, align) ==
    ((n + align - 1) \div align) * align

\* std::mem::align_of.  Arg24 is [u8; 3]; UpValueOrigin holds a u32.
align_of(type) ==
    CASE type = "u8" -> 1
      [] type = "u16" -> 2
      [] type = "u32" -> 4
      [] type = "Arg24" -> 1
      [] type = "UpValueOrigin" -> 4

\* std::mem::size_of.  UpValueOrigin is a discriminant followed by the u32 of
\* Parent or Outer, rounded up to its alignment.
size_of(type) ==
    CASE type = "u8" -> 1
      [] type = "u16" -> 2
      [] type = "u32" -> 4
      [] type = "Arg24" -> 3
      [] type = "UpValueOrigin" -> RoundUp(RoundUp(1, 4) + 4, 4)

\* The offset at which a variant ends when its fields follow a tag of
\* tag_size bytes, each at the next offset its alignment allows (fields are
\* listed by ascending alignment).
RECURSIVE VariantEnd(_, _)
VariantEnd(fields, offset) ==
    IF fields = <<>> THEN offset
    ELSE VariantEnd(Tail(fields),
                    RoundUp(offset, align_of(Head(fields))) + size_of(Head(fields)))

\* The alignment of enum Op: the largest alignment of a field.
align_of_Op ==
    LET aligns == {1} \cup UNION {{align_of(Fields(name)[i]) : i \in DOMAIN Fields(name)} :
                                  name \in Variants}
    IN  CHOOSE a \in aligns : \A b \in aligns : b <= a

\* std::mem::size_of::<Op>().  With a tag byte of its own the enum ends where
\* its longest variant ends; where a variant holds an enum (UpValueOrigin) the
\* compiler may instead keep the tag in that enum's discriminant, the other
\* variants' fields following it, and the enum is as large as that variant.
\* The compiler takes the smaller layout.
size_of_Op ==
    LET tagged == {RoundUp(VariantEnd(Fields(name), 1), align_of_Op) : name \in Variants}
        largest == CHOOSE s \in tagged : \A t \in tagged : t <= s
        niched == {RoundUp(VariantEnd(Fields(name), 0), align_of_Op) :
                       name \in {"CaptureValue"}}
        others == {RoundUp(VariantEnd(Fields(name), RoundUp(1, 4)), align_of_Op) :
                       name \in Variants \ {"CaptureValue"}}
        sizes == {largest} \cup {s \in niched : \A t \in others : t <= s}
    IN  CHOOSE s \in sizes : \A t \in sizes : s <= t

----------------------------------------------------------------------------
(* Vocabulary of the properties *)

\* Program p is being run from its prototype 1 by the first run_function call
\* on the Vm.
FirstRun(p) ==
    prog = p /\ runs = 1 /\ closures[1].func = 1

\* The instruction frame fr executed last is `name` (for an instruction that
\* does not jump: ip was advanced past it).
LeftBy(fr, name) ==
    /\ InBounds(prog[fr.func].code, fr.ip - 1)
    /\ At(prog[fr.func].code, fr.ip - 1).op = name

\* run_op_loop handed a FrameAction::Return to run_interpreter.
PendingReturn ==
    status = "running" /\ action.kind = "Return"

\* The outermost frame of the first run is about to execute the instruction at
\* index ip, every call it made having returned.
TopAt(ip) ==
    status = "running" /\ action.kind = "None" /\ calls = <<>> /\ frame.ip = ip

ArityMessage ==
    "caller expected results, but callee only returned"

----------------------------------------------------------------------------
(* C1 *)

\* C1: when a callee that executed Return{count: n} returns to a Call that
\* expected r <= n results, control is back in the caller with a stack of length
\* callee.base + r whose slots callee.base + i hold the first r values of the
\* callee's top-n window, whatever the callee's stack_size and stack depth.
C1_ResultsCopied ==
    [][ ( /\ PendingReturn
          /\ LeftBy(frame, "Return")
          /\ calls # <<>>
          /\ action.count >= frame.results
          /\ Len(stack) - frame.base >= action.count )
        => ( /\ status' = "running"
             /\ frame' = calls[Len(calls)]
             /\ Len(stack') = frame.base + frame.results
             /\ \A i \in 0..(frame.results - 1) :
                    At(stack', frame.base + i)
                        = At(stack, Len(stack) - action.count + i) ) ]_vars

----------------------------------------------------------------------------
(* C2 *)

RECURSIVE Fib(_)
Fib(k) ==
    IF k <= 1 THEN k ELSE Fib(k - 1) + Fib(k - 2)

\* C2: the test_recursion program with argument k ends with Ok, and the call
\* of fib yields Fib(k) as its single result.
C2_Recursion ==
    \A k \in 0..MaxFib :
        FirstRun(TestRecursion(k))
        => /\ status \in {"running", "ok"}
           /\ TopAt(4) => stack = <<from_closure(1), from_closure(2), IntV(Fib(k))>>

----------------------------------------------------------------------------
(* C3 *)

\* C3: when a frame that executed Return is popped (the caller is resumed, or
\* the outermost frame ends the run with Ok), every cell the frame ever pushed
\* into its open-cell list is Closed.
C3_ClosedWhenPopped ==
    ( /\ last.step = "FrameReturn"
      /\ status \in {"running", "ok"}
      /\ LeftBy(last.frame, "Return") )
    => \A i \in 1..Len(last.frame.made) : cells[last.frame.made[i]].t = "Closed"

\* A nested frame that created two cells has just been popped by Return.
C3_Witness ==
    /\ last.step = "FrameReturn"
    /\ status = "running"
    /\ LeftBy(last.frame, "Return")
    /\ Len(last.frame.made) >= 2
    /\ \A i \in 1..Len(last.frame.made) : cells[last.frame.made[i]].t = "Closed"

----------------------------------------------------------------------------
(* C4 *)

\* A Return that completes closes each still-open cell of the frame's list with
\* the value its slot holds at that moment.
C4_CloseStep ==
    (Fetch("Return") /\ action'.kind = "Return")
    => \A i \in 1..Len(frame.up_values) :
           LET h == frame.up_values[i]
           IN  cells[h].t = "Open" => cells'[h] = Closed(At(stack, cells[h].off))

\* GetUpValue through a closed cell pushes the cell's value.
C4_ReadStep ==
    ( /\ Fetch("GetUpValue")
      /\ InBounds(FrameUpValues, Op.a)
      /\ cells[At(FrameUpValues, Op.a)].t = "Closed" )
    => /\ stack' = Append(stack, cells[At(FrameUpValues, Op.a)].val)
       /\ cells' = cells

\* A closed cell changes only when a SetUpValue addressed to it overwrites it.
C4_KeepStep ==
    \A h \in DOMAIN cells :
        (cells[h].t = "Closed" /\ cells'[h] # cells[h])
        => /\ Fetch("SetUpValue")
           /\ stack # <<>>
           /\ InBounds(FrameUpValues, Op.a)
           /\ At(FrameUpValues, Op.a) = h
           /\ cells'[h] = Closed(stack[Len(stack)])

\* An open cell in the running frame's list stands for a local slot base + i of
\* that frame which some closure captured with origin Parent(i).
C4_OpenAtSlot ==
    status = "running"
    => \A n \in 1..Len(frame.up_values) :
           LET h == frame.up_values[n]
           IN  cells[h].t = "Open"
               => \E c \in DOMAIN closures :
                      \E p \in DOMAIN closures[c].up_values :
                          /\ closures[c].up_values[p] = h
                          /\ prog[closures[c].func].up_values[p]
                                 = Parent(cells[h].off - frame.base)

\* The closures of the three outliving programs read 42, 43 and 44 after the
\* frame that owned the captured slot has returned.
C4_Outlives ==
    \A p \in {<<OutlivePlain, 42>>, <<OutliveSetLocal, 43>>, <<OutliveSetUpValue, 44>>} :
        FirstRun(p[1])
        => /\ status \in {"running", "ok"}
           /\ TopAt(3) => stack = <<from_closure(1), IntV(p[2])>>

\* C4: a closed up-value outlives its frame: at Return the cell of local slot i
\* becomes Closed(v) with v the value of stack[base + i] at that moment (later
\* SetLocal and SetUpValue writes included), and every later GetUpValue through
\* the cell pushes v until a SetUpValue overwrites it.
C4_ClosedOutlives ==
    /\ [](C4_OpenAtSlot /\ C4_Outlives)
    /\ [][C4_CloseStep /\ C4_ReadStep /\ C4_KeepStep]_vars

\* A closure called after its creator returned reads 44, the value a
\* SetUpValue wrote into the captured slot before the Return closed the cell.
C4_Witness ==
    /\ FirstRun(OutliveSetUpValue)
    /\ last.step = "GetUpValue"
    /\ status = "running"
    /\ cells[At(closures[last.frame.closure].up_values, 0)] = Closed(IntV(44))
    /\ stack[Len(stack)] = IntV(44)
    /\ Len(calls) = 1

----------------------------------------------------------------------------
(* C5 *)

\* C5: two closures created in the same frame with origin Parent(i) for the
\* same slot share one cell: the 99 the setter writes through SetUpValue is
\* what the getter reads through GetUpValue after their creator has returned.
C5_SharedCell ==
    (FirstRun(SharedPair) /\ TopAt(7)) => stack[Len(stack)] = IntV(99)

----------------------------------------------------------------------------
(* C6 *)

\* A CreateClosure that completes allocates one cell per Parent origin and none
\* for an Outer origin; entry p of the new closure with origin Outer(j) is the
\* cell that entry j of the executing closure is; no existing cell changes.
C6_CreateStep ==
    ( /\ Fetch("CreateClosure")
      /\ InBounds(prog[frame.func].funcs, into_usize(Op.arg))
      /\ status' = "running" )
    => LET func == At(prog[frame.func].funcs, into_usize(Op.arg))
           origins == prog[func].up_values
           new == closures'[Len(closures')]
       IN  /\ Len(closures') = Len(closures) + 1
           /\ new.func = func
           /\ Len(new.up_values) = Len(origins)
           /\ \A p \in 1..Len(origins) :
                  origins[p].t = "Outer"
                  => new.up_values[p] = At(FrameUpValues, origins[p].i)
           /\ Len(cells') = Len(cells)
                  + Cardinality({p \in 1..Len(origins) : origins[p].t = "Parent"})
           /\ \A h \in DOMAIN cells : cells'[h] = cells[h]

\* Through a chain of d closures that each capture with Outer(0), the innermost
\* closure reads the 50 written to the slot after the closures were created and
\* closed into the cell when the slot's frame returned.
C6_Nested ==
    \A d \in 0..MaxDepth :
        FirstRun(NestedOuter(d))
        => /\ status \in {"running", "ok"}
           /\ TopAt(3) => stack = <<from_closure(1), IntV(50)>>

\* C6: for an origin Outer(j) CreateClosure allocates no cell, the new
\* closure's entry is the very cell of entry j of the executing closure, and at
\* any nesting depth a write to or the closing of that cell is seen through
\* every closure sharing it.
C6_OuterShares ==
    /\ []C6_Nested
    /\ [][C6_CreateStep]_vars

\* The innermost closure of the deepest chain, holding the cell through
\* MaxDepth Outer captures, has read the closed value 50.
C6_Witness ==
    /\ FirstRun(NestedOuter(MaxDepth))
    /\ last.step = "GetUpValue"
    /\ status = "running"
    /\ prog[last.frame.func].up_values = <<Outer(0)>>
    /\ cells[At(closures[last.frame.closure].up_values, 0)] = Closed(IntV(50))
    /\ stack[Len(stack)] = IntV(50)

----------------------------------------------------------------------------
(* C7 *)

\* C7: a frame that executed End is left as if it had executed
\* Return{count: 0}: every cell of its open-cell list is closed, and
\* run_interpreter treats the frame (stack, caller resumption, arity error, Ok
\* at the outermost frame) as it treats the action of Return{count: 0}.
C7_EndIsReturnZero ==
    (PendingReturn /\ last.step = "End")
    => /\ \A i \in 1..Len(last.frame.up_values) :
              cells[last.frame.up_values[i]].t = "Closed"
       /\ ReturnArm(action.start, action.count)
              = ReturnArm(ReturnStart(Len(stack), frame.base, 0), 0)

----------------------------------------------------------------------------
(* C8 *)

\* C8: when a callee hands n results to a Call that expected r, run_function
\* returns the Runtime error "caller expected r results, but callee only
\* returned n" if r > n, and does not raise that error if r <= n.
C8_ArityError ==
    [][ (PendingReturn /\ calls # <<>>)
        => ( (frame.results > action.count)
             <=> ( /\ status' = "err"
                   /\ error' = Err(ArityMessage, frame.results, action.count) ) ) ]_vars

----------------------------------------------------------------------------
(* C9 *)

\* C9: when the arity error is raised the stack is no longer than it was when
\* the callee's frame was entered: no value the callee pushed remains.
C9_TruncatedOnArityError ==
    (status = "err" /\ error.msg = ArityMessage) => Len(stack) <= frame.entry

----------------------------------------------------------------------------
(* C10 *)

\* C10: when run_function on a fresh Vm returns Ok, the operand stack is empty.
C10_EmptyAfterOk ==
    (status = "ok" /\ runs = 1) => stack = <<>>

\* The outermost frame of the first run ended with Return{count: k}, k >= 1,
\* while more than k values lay above its callable, and the stack is empty.
C10_Witness ==
    /\ status = "ok"
    /\ runs = 1
    /\ last.step = "FrameReturn"
    /\ LeftBy(last.frame, "Return")
    /\ At(prog[last.frame.func].code, last.frame.ip - 1).a >= 1
    /\ Len(last.stack) > 1 + At(prog[last.frame.func].code, last.frame.ip - 1).a
    /\ stack = <<>>

----------------------------------------------------------------------------
(* C11 *)

\* The next instruction is an arithmetic or comparison opcode and one of the
\* operands it is about to use (the top of the stack, or the value below it for
\* a binary opcode) is not of the opcode's kind.
WrongKindOperand ==
    /\ status = "running"
    /\ action.kind = "None"
    /\ InBounds(Code, frame.ip)
    /\ LET name == Op.op
           ok(val) == IF name \in IntBinaryOps \cup {"Int_Neg"}
                      THEN as_int(val).some
                      ELSE as_float(val).some
       IN  \/ /\ name \in IntBinaryOps \cup FloatBinaryOps
              /\ Len(stack) >= 2
              /\ ~ok(stack[Len(stack)]) \/ ~ok(stack[Len(stack) - 1])
           \/ /\ name \in {"Int_Neg", "Float_Neg"}
              /\ Len(stack) >= 1
              /\ ~ok(stack[Len(stack)])

\* C11: an arithmetic or comparison opcode executed with an operand of the
\* wrong kind makes run_function return a Runtime error, and the operand stack
\* is then as long as it was before the opcode executed.
C11_Monomorphism ==
    [][ WrongKindOperand => (status' = "err" /\ Len(stack') = Len(stack)) ]_vars

----------------------------------------------------------------------------
(* C12 *)

\* C12: Int_Div and Int_Mod executed on two Int operands with a zero divisor
\* (the top of the stack) make run_function return a Runtime error.
C12_DivisionByZero ==
    [][ ( /\ status = "running"
          /\ action.kind = "None"
          /\ InBounds(Code, frame.ip)
          /\ Op.op \in {"Int_Div", "Int_Mod"}
          /\ Len(stack) >= 2
          /\ as_int(stack[Len(stack) - 1]).some
          /\ stack[Len(stack)] = IntV(0) )
        => status' = "err" ]_vars

----------------------------------------------------------------------------
(* C13 *)

\* Call{base: b, results: r} hands run_interpreter the absolute slot F + b of
\* the frame with base F, and r.
C13_CallStep ==
    Fetch("Call")
    => /\ action' = FrameActionCall(frame.base + Op.a, Op.b)
       /\ frame' = Advanced
       /\ stack' = stack

\* A Call whose slot holds a value that is no closure ends the run with the
\* Runtime error "closure value expected"; the frame and the call stack stay.
C13_VerifyStep ==
    ( /\ status = "running"
      /\ action.kind = "Call"
      /\ InBounds(stack, action.base)
      /\ ~as_closure(At(stack, action.base)).some )
    => /\ status' = "err"
       /\ error' = Err("closure value expected", 0, 0)
       /\ calls' = calls
       /\ frame' = frame

----------------------------------------------------------------------------
(* C14 *)

\* C14: the test_basic_call program ends with Ok, and the call of the function
\* constant pushed by PushFunc yields Int(18), the sum of its arguments 7 and 11.
C14_BasicCall ==
    FirstRun(TestBasicCall)
    => /\ status \in {"running", "ok"}
       /\ TopAt(6) => stack[Len(stack)] = IntV(18)

----------------------------------------------------------------------------
(* C15 *)

\* C15: from_i64 and from_i32 succeed exactly on the integers i with
\* -2^23 <= i < 2^23, and into_i64 of the Arg24 they yield is i again.
C15_SignedRoundTrip ==
    encoded.from \in {"from_i64", "from_i32"}
    => /\ encoded.ok <=> (-8388608 <= encoded.value /\ encoded.value < 8388608)
       /\ encoded.step = "into_i64" => encoded.out = encoded.value

----------------------------------------------------------------------------
(* C16 *)

\* C16: from_u32 succeeds exactly on the integers u with 0 <= u < 2^24, and
\* into_u32 and into_usize of the Arg24 it yields are u again.
C16_UnsignedEncoding ==
    encoded.from = "from_u32"
    => /\ encoded.ok <=> encoded.value < 16777216
       /\ encoded.step \in {"into_u32", "into_usize"} => encoded.out = encoded.value

----------------------------------------------------------------------------
(* C17 *)

\* The step about to be taken is one of the failing cases: a GetLocal or
\* SetLocal of a slot, or a Call of a slot, that is not below the stack length;
\* a CreateClosure with an origin Outer(j), j no index of the executing
\* closure's up-values; a GetUpValue, SetUpValue or Return that meets an Open
\* cell whose offset is not below the stack length.
FailingCase ==
    /\ status = "running"
    /\ \/ /\ Fetch("GetLocal")
          /\ ~InBounds(stack, frame.base + Op.a)
       \/ /\ Fetch("SetLocal")
          /\ stack # <<>>
          /\ ~InBounds(stack, frame.base + Op.a)
       \/ /\ action.kind = "Call"
          /\ ~InBounds(stack, action.base)
       \/ /\ Fetch("CreateClosure")
          /\ InBounds(prog[frame.func].funcs, into_usize(Op.arg))
          /\ LET origins == prog[At(prog[frame.func].funcs, into_usize(Op.arg))].up_values
             IN  \E p \in 1..Len(origins) :
                     origins[p].t = "Outer" /\ ~InBounds(FrameUpValues, origins[p].i)
       \/ /\ Fetch("GetUpValue") \/ Fetch("SetUpValue")
          /\ stack # <<>>
          /\ InBounds(FrameUpValues, Op.a)
          /\ cells[At(FrameUpValues, Op.a)].t = "Open"
          /\ ~InBounds(stack, cells[At(FrameUpValues, Op.a)].off)
       \/ /\ Fetch("Return")
          /\ \E i \in 1..Len(frame.up_values) :
                 /\ cells[frame.up_values[i]].t = "Open"
                 /\ ~InBounds(stack, cells[frame.up_values[i]].off)

\* C17: a failing opcode makes run_function return a Runtime error instead of
\* aborting.
C17_FailuresAreErrors ==
    [][ FailingCase => status' = "err" ]_vars

----------------------------------------------------------------------------
(* C18 *)

\* The open-cell lists of the frames in flight: the current frame and every
\* frame on the call stack.
InFlightCells ==
    {frame.up_values[i] : i \in 1..Len(frame.up_values)}
    \cup UNION {{calls[c].up_values[i] : i \in 1..Len(calls[c].up_values)} :
                c \in 1..Len(calls)}

\* C18: when run_function returns an error, every cell of the open-cell lists
\* of the frames in flight has been closed.
C18_ClosedOnError ==
    status = "err" => \A h \in InFlightCells : cells[h].t = "Closed"

----------------------------------------------------------------------------
(* C19 *)

\* C19: every run_function call, also one made after an earlier call on the
\* same Vm returned an error, wraps the prototype in a closure without
\* up-values and places it at stack index 0, the base of the outermost frame.
C19_ClosureAtBase ==
    last.step = "RunFunction"
    => /\ closures[frame.closure].up_values = <<>>
       /\ closures[frame.closure].func = frame.func
       /\ frame.base = 0
       /\ At(stack, 0) = from_closure(frame.closure)

----------------------------------------------------------------------------
(* C20 *)

\* C20: while a frame is the current frame the operand stack is never shorter
\* than the frame's base: no instruction the frame executes removes a slot
\* below its base.
C20_NotBelowBase ==
    status = "running" => Len(stack) >= frame.base

----------------------------------------------------------------------------
(* C21 *)

\* The step just taken is an Int_Add whose two top operands were Ints.
C21_Added ==
    /\ last.step = "Int_Add"
    /\ Len(last.stack) >= 2
    /\ as_int(last.stack[Len(last.stack)]).some
    /\ as_int(last.stack[Len(last.stack) - 1]).some

\* Int_Add popped Int b, then Int a, and pushed Int(a + b).
C21_PoppedAndPushed ==
    C21_Added
    => /\ status = "running"
       /\ stack = Append(PopN(last.stack, 2),
                         IntV(as_int(last.stack[Len(last.stack) - 1]).v
                              + as_int(last.stack[Len(last.stack)]).v))

\* C21 as stated: running PushIntIn 7; PushIntIn 11; Int_Add; End on a fresh
\* Vm, the stack top is Int(18) and the stack length is 1 immediately before
\* End executes, and run_function returns Ok; Int_Add pops Int b, then Int a,
\* and pushes Int(a + b).
C21_LiteralAdd_Stated ==
    /\ FirstRun(TestBasicMath)
       => /\ status \in {"running", "ok"}
          /\ TopAt(3) => (stack[Len(stack)] = IntV(18) /\ Len(stack) = 1)
    /\ C21_PoppedAndPushed

\* C21, amended: immediately before End executes the stack is the closure of
\* the running prototype in slot 0 with Int(18) on top of it (length 2), and
\* run_function returns Ok; Int_Add pops Int b, then Int a, and pushes
\* Int(a + b), a net stack change of -1.
C21_LiteralAdd ==
    /\ FirstRun(TestBasicMath)
       => /\ status \in {"running", "ok"}
          /\ TopAt(3) => stack = <<from_closure(1), IntV(18)>>
    /\ C21_PoppedAndPushed

\* The literal add program is about to execute End, Int_Add having just added
\* 7 and 11.
C21_Witness ==
    /\ FirstRun(TestBasicMath)
    /\ TopAt(3)
    /\ C21_Added
    /\ last.stack = <<from_closure(1), IntV(7), IntV(11)>>

----------------------------------------------------------------------------
(* C22 *)

\* The pool of prototype func that the opcode `name` reads.
C22_Pool(name, func) ==
    CASE name = "PushInt" -> prog[func].ints
      [] name = "PushFloat" -> prog[func].floats
      [] name = "PushString" -> prog[func].strings
      [] name \in {"PushFunc", "CreateClosure"} -> prog[func].funcs

\* The value val is what the opcode `name` makes of the pool element x.
C22_Holds(name, val, x) ==
    CASE name = "PushInt" -> val = IntV(x)
      [] name = "PushFloat" -> val = FloatV(x)
      [] name = "PushString" -> val = [t |-> "String", v |-> x]
      [] name = "PushFunc" -> val = from_func(x)
      [] name = "CreateClosure" -> as_closure(val).some /\ closures[val.v].func = x

\* C22: PushInt k, PushFloat k, PushString k and PushFunc k push element k of
\* the executing prototype's ints, floats, strings and funcs pool, CreateClosure
\* k instantiates funcs[k], and an index k outside the pool makes run_function
\* return a Runtime error.
C22_ConstantAccess ==
    \A name \in ConstantOps :
        last.step = name
        => LET k == into_usize(At(prog[last.frame.func].code, last.frame.ip).arg)
               pool == C22_Pool(name, last.frame.func)
           IN  IF InBounds(pool, k)
               THEN /\ status = "running"
                    /\ Len(stack) = Len(last.stack) + 1
                    /\ C22_Holds(name, stack[Len(stack)], At(pool, k))
               ELSE status = "err"

----------------------------------------------------------------------------
(* C23 *)

\* C23: executing a reserved, unimplemented opcode (Str_Concat, Str_Slice,
\* Load, Store, SetGlobal, GetGlobal, CaptureValue) makes run_function return a
\* Runtime error.
C23_ReservedIsError ==
    last.step \in ReservedOps => status = "err"

----------------------------------------------------------------------------
(* C24 *)

\* A cell that exists keeps existing; a Closed cell stays Closed; an Open cell
\* that stays Open keeps its offset; an Open cell becomes Closed only in the
\* Return of the frame that created it, with the value at its offset.
C24_CellStep ==
    \A h \in DOMAIN cells :
        /\ h \in DOMAIN cells'
        /\ cells[h].t = "Closed" => cells'[h].t = "Closed"
        /\ (cells[h].t = "Open" /\ cells'[h].t = "Open") => cells'[h].off = cells[h].off
        /\ (cells[h].t = "Open" /\ cells'[h].t = "Closed")
           => /\ Fetch("Return")
              /\ \E i \in 1..Len(frame.made) : frame.made[i] = h
              /\ cells'[h] = Closed(At(stack, cells[h].off))

\* A new cell is made by CreateClosure and is Open.
C24_NewCellStep ==
    \A h \in (DOMAIN cells') \ (DOMAIN cells) :
        /\ Fetch("CreateClosure")
        /\ cells'[h].t = "Open"

\* C24: every cell is created Open by CreateClosure and changes state at most
\* once, from Open(o) to Closed(v), and only when the frame that created it
\* returns; a Closed cell never becomes Open again, and while a cell is Open
\* its offset o never changes.
C24_CellLifecycle ==
    [][C24_CellStep /\ C24_NewCellStep]_vars

\* A frame's Return has just closed the cell it created while a cell created
\* by its caller is still Open.
C24_Witness ==
    /\ last.step = "Return"
    /\ status = "running"
    /\ calls # <<>>
    /\ \E i \in 1..Len(last.frame.made) : cells[last.frame.made[i]].t = "Closed"
    /\ \E c \in 1..Len(calls) : \E i \in 1..Len(calls[c].made) :
           cells[calls[c].made[i]].t = "Open"

----------------------------------------------------------------------------
(* C25 *)

\* C25: every instruction is exactly one 32-bit unit, an 8-bit opcode tag
\* plus an operand payload of at most 24 bits, for every opcode variant,
\* CaptureValue with its UpValueOrigin operand included: every instruction of
\* every prototype occupies 4 bytes.
C25_InstructionSize ==
    /\ \A name \in Variants : VariantEnd(Fields(name), 1) <= 4
    /\ \A f \in DOMAIN prog : \A i \in DOMAIN prog[f].code :
           prog[f].code[i].op \in Variants /\ size_of_Op = 4

----------------------------------------------------------------------------
(* C26 *)

\* C26: Shared::upgrade on a Weak returns a handle if and only if at least one
\* strong Handle to the object still existed, and None once the last one has
\* been dropped; upgrade on a Strong always succeeds; the object is alive
\* exactly while some strong Handle is held, Weak handles alone never keep it.
C26_WeakContract ==
    /\ (shared.step = "upgrade" /\ shared.on = "Weak")
       => (shared.some <=> shared.had_strong)
    /\ (shared.step = "upgrade" /\ shared.on = "Strong") => shared.some
    /\ shared.step # "none" => (shared.dropped <=> ~HoldsStrong(shared.held))

\* The last Strong was dropped while Weak handles were held, and the upgrade
\* of a Weak has just returned None.
C26_Witness ==
    /\ shared.step = "upgrade"
    /\ shared.on = "Weak"
    /\ ~shared.some
    /\ shared.dropped
    /\ Len(shared.held) >= 2

----------------------------------------------------------------------------
(* C27 *)

\* The absolute index of the slot that the instruction just executed names:
\* the slot operand relative to the base of the frame that executed it.
C27_Slot ==
    last.frame.base + At(prog[last.frame.func].code, last.frame.ip).a

\* C27: SetLocal{slot} copies the top of stack into stack[frame.base + slot]
\* without popping, the stack length and every other slot unchanged, and on an
\* empty stack it is a stack-underflow Runtime error; GetLocal{slot} pushes a
\* copy of stack[frame.base + slot] and changes no existing slot; the slot is
\* relative to the base of the frame that executes the instruction.
C27_Locals ==
    /\ (last.step = "SetLocal" /\ last.stack = <<>>)
       => (status = "err" /\ error = Err("stack underflow", 0, 0) /\ stack = <<>>)
    /\ (last.step = "SetLocal" /\ InBounds(last.stack, C27_Slot))
       => /\ status = "running"
          /\ Len(stack) = Len(last.stack)
          /\ At(stack, C27_Slot) = last.stack[Len(last.stack)]
          /\ \A i \in 0..(Len(stack) - 1) :
                 i # C27_Slot => At(stack, i) = At(last.stack, i)
    /\ (last.step = "GetLocal" /\ InBounds(last.stack, C27_Slot))
       => /\ status = "running"
          /\ Len(stack) = Len(last.stack) + 1
          /\ stack[Len(stack)] = At(last.stack, C27_Slot)
          /\ \A i \in 0..(Len(last.stack) - 1) : At(stack, i) = At(last.stack, i)

\* A callee with base 1 has just assigned its local 1 (absolute slot 2), which
\* held another value, and the value is still on top of the stack.
C27_Witness ==
    /\ last.step = "SetLocal"
    /\ status = "running"
    /\ last.frame.base = 1
    /\ C27_Slot = 2
    /\ At(last.stack, 2) # At(stack, 2)
    /\ stack[Len(stack)] = At(stack, 2)
    /\ Len(stack) = Len(last.stack)

\* A SetLocal on an empty stack has ended the run with the underflow error.
C27_Underflow ==
    /\ last.step = "SetLocal"
    /\ last.stack = <<>>
    /\ status = "err"

----------------------------------------------------------------------------
(* C28 *)

\* C28: Int_Neg (Float_Neg) replaces the Int (Float) on top of the operand
\* stack with its negation and leaves the stack length and every other slot
\* unchanged, whatever the instruction pointer and the stack depth are.
C28_NegInPlace ==
    /\ ( /\ last.step = "Int_Neg"
         /\ last.stack # <<>>
         /\ as_int(last.stack[Len(last.stack)]).some )
       => /\ status = "running"
          /\ stack = Put(last.stack, Len(last.stack) - 1,
                         IntV(-as_int(last.stack[Len(last.stack)]).v))
    /\ ( /\ last.step = "Float_Neg"
         /\ last.stack # <<>>
         /\ as_float(last.stack[Len(last.stack)]).some )
       => /\ status = "running"
          /\ stack = Put(last.stack, Len(last.stack) - 1,
                         FloatV(-as_float(last.stack[Len(last.stack)]).v))

----------------------------------------------------------------------------
(* C29 *)

\* The condition under which the claim lets a one-operand jump branch.
C29_Branches(name, v) ==
    CASE name \in {"JumpZero", "JumpEq"} -> v = 0
      [] name = "JumpNe" -> v # 0
      [] name = "JumpLt" -> v < 0
      [] name = "JumpLe" -> v <= 0
      [] name = "JumpGe" -> v >= 0

\* The signed offset of the jump instruction just executed.
C29_Offset ==
    into_i64(At(prog[last.frame.func].code, last.frame.ip).arg)

\* C29: JumpZero, JumpEq, JumpNe, JumpLt, JumpLe and JumpGe pop one Int v and
\* branch iff v = 0, v = 0, v # 0, v < 0, v <= 0, v >= 0; JumpGt pops two Ints
\* (b from the top, then a) and branches iff a > b; when the branch is not taken
\* the operands are popped all the same and the next instruction follows.  The
\* test_basic_branch program runs its then-branch and returns Int(123).
C29_ConditionalJumps ==
    /\ \A name \in JumpOnIntOps :
           ( /\ last.step = name
             /\ last.stack # <<>>
             /\ as_int(last.stack[Len(last.stack)]).some )
           => /\ status = "running"
              /\ stack = PopN(last.stack, 1)
              /\ frame.ip = last.frame.ip + 1
                            + (IF C29_Branches(name, as_int(last.stack[Len(last.stack)]).v)
                               THEN C29_Offset ELSE 0)
    /\ ( /\ last.step = "JumpGt"
         /\ Len(last.stack) >= 2
         /\ as_int(last.stack[Len(last.stack)]).some
         /\ as_int(last.stack[Len(last.stack) - 1]).some )
       => /\ status = "running"
          /\ stack = PopN(last.stack, 2)
          /\ frame.ip = last.frame.ip + 1
                        + (IF as_int(last.stack[Len(last.stack) - 1]).v
                              > as_int(last.stack[Len(last.stack)]).v
                           THEN C29_Offset ELSE 0)
    /\ FirstRun(TestBasicBranch)
       => /\ status \in {"running", "ok"}
          /\ frame.ip \notin {9, 10}
          /\ PendingReturn => (action.count = 1 /\ stack[Len(stack)] = IntV(123))

\* A JumpLt has just popped a negative Int and branched by a non-zero offset.
C29_Witness ==
    /\ last.step = "JumpLt"
    /\ status = "running"
    /\ as_int(last.stack[Len(last.stack)]).some
    /\ as_int(last.stack[Len(last.stack)]).v < 0
    /\ C29_Offset # 0
    /\ frame.ip = last.frame.ip + 1 + C29_Offset
    /\ stack = PopN(last.stack, 1)

\* The test_basic_branch program has executed Return{1} in its then-branch.
C29_BranchReturned ==
    /\ FirstRun(TestBasicBranch)
    /\ PendingReturn
    /\ frame.ip = 8
    /\ stack[Len(stack)] = IntV(123)

----------------------------------------------------------------------------
(* C30 *)

\* The instruction just executed is a jump that branched: Jump, a one-operand
\* jump whose condition held for the popped Int, or JumpGt with a > b.
C30_Taken ==
    \/ last.step = "Jump"
    \/ /\ last.step \in JumpOnIntOps
       /\ last.stack # <<>>
       /\ as_int(last.stack[Len(last.stack)]).some
       /\ C29_Branches(last.step, as_int(last.stack[Len(last.stack)]).v)
    \/ /\ last.step = "JumpGt"
       /\ Len(last.stack) >= 2
       /\ as_int(last.stack[Len(last.stack)]).some
       /\ as_int(last.stack[Len(last.stack) - 1]).some
       /\ as_int(last.stack[Len(last.stack) - 1]).v > as_int(last.stack[Len(last.stack)]).v

\* The opcodes that neither jump, call nor return.
C30_Plain ==
    Variants \ (JumpOnIntOps \cup {"JumpGt", "Jump", "Call", "Return"})

\* C30: a taken jump with signed offset d, encoded in the instruction at code
\* index p, sets the instruction pointer to p + 1 + d (a target that is an
\* index, not below zero), for positive, zero and negative d; every
\* instruction that is no jump, call or return advances ip by exactly 1.
C30_JumpTarget ==
    /\ (C30_Taken /\ last.frame.ip + 1 + C29_Offset >= 0)
       => /\ status = "running"
          /\ frame = [last.frame EXCEPT !.ip = last.frame.ip + 1 + C29_Offset]
    /\ (last.step \in C30_Plain /\ status = "running")
       => frame.ip = last.frame.ip + 1

\* An unconditional Jump with a negative offset has just moved ip backwards to
\* an earlier instruction.
C30_Witness ==
    /\ last.step = "Jump"
    /\ status = "running"
    /\ C29_Offset < 0
    /\ frame.ip = last.frame.ip + 1 + C29_Offset
    /\ frame.ip >= 0
    /\ frame.ip < last.frame.ip

\* A conditional jump has just branched forward by a positive offset.
C30_Forward ==
    /\ last.step \in JumpOnIntOps \cup {"JumpGt"}
    /\ C30_Taken
    /\ C29_Offset > 0
    /\ frame.ip = last.frame.ip + 1 + C29_Offset

----------------------------------------------------------------------------
(* C31 *)

\* C31: when the instruction pointer of the current frame is outside its code
\* as the next instruction is fetched (execution ran past the last
\* instruction, or a jump went to an index below zero or not below the code
\* length), run_function returns the Runtime error "instruction pointer out of
\* bytecode bounds" and nothing further is executed: stack, call stack and heap
\* stay as they are.
C31_FetchOutOfBounds ==
    [][ ( /\ status = "running"
          /\ action.kind = "None"
          /\ ~InBounds(Code, frame.ip) )
        => ( /\ status' = "err"
             /\ error' = Err("instruction pointer out of bytecode bounds", 0, 0)
             /\ stack' = stack
             /\ calls' = calls
             /\ closures' = closures
             /\ cells' = cells ) ]_vars

\* A Jump to an index below zero has ended the run with the error.
C31_Witness ==
    /\ last.step = "FetchFail"
    /\ status = "err"
    /\ error = Err("instruction pointer out of bytecode bounds", 0, 0)
    /\ last.frame.ip < 0
    /\ LeftBy([last.frame EXCEPT !.ip = 3], "Jump")

\* A Jump beyond the code, and a body without End, have ended the same way.
C31_PastTheEnd ==
    /\ last.step = "FetchFail"
    /\ status = "err"
    /\ last.frame.ip >= Len(prog[last.frame.func].code)

----------------------------------------------------------------------------
(* C32 *)

\* Call{base: b, results: r} on a closure: the caller's frame is pushed on the
\* call stack and the new current frame has base = caller.base + b, ip = 0,
\* results = r, the called closure and an empty open-cell list.
C32_CallStep ==
    ( /\ status = "running"
      /\ action.kind = "Call"
      /\ InBounds(stack, action.base)
      /\ as_closure(At(stack, action.base)).some )
    => /\ LeftBy(frame, "Call")
       /\ calls' = Append(calls, frame)
       /\ frame'.base = frame.base + At(Code, frame.ip - 1).a
       /\ frame'.ip = 0
       /\ frame'.results = At(Code, frame.ip - 1).b
       /\ frame'.closure = as_closure(At(stack, frame'.base)).v
       /\ frame'.up_values = <<>>
       /\ stack' = stack

\* A frame leaves the call stack only as the callee returns: it is the frame
\* its Call pushed, unchanged (base, closure, open-cell list) and about to
\* execute the instruction after that Call, and the return step changes no
\* stack slot below the callee's base.
C32_ResumeStep ==
    Len(calls') < Len(calls)
    => /\ status = "running"
       /\ action.kind = "Return"
       /\ LeftBy(frame, "Return") \/ LeftBy(frame, "End")
       /\ calls' = SubSeq(calls, 1, Len(calls) - 1)
       /\ frame' = calls[Len(calls)]
       /\ LeftBy(frame', "Call")
       /\ Len(stack') >= frame.base
       /\ \A i \in 0..(frame.base - 1) : At(stack', i) = At(stack, i)

\* The call stack grows only by a Call, by one frame.
C32_DepthStep ==
    Len(calls') > Len(calls)
    => /\ action.kind = "Call"
       /\ Len(calls') = Len(calls) + 1

\* C32: the call/return protocol.  Call on a closure pushes the caller's frame
\* and installs the callee's frame (base = caller.base + b, ip = 0, results = r,
\* no open cells); when the callee returns the caller resumes after its Call
\* with base, closure and open-cell list unchanged and the slots below the
\* callee's base untouched; the depth of the call stack changes only at Call
\* (+1) and at Return / End (-1).
C32_CallReturnProtocol ==
    [][C32_CallStep /\ C32_ResumeStep /\ C32_DepthStep]_vars

\* A callee at depth two has just returned to its caller, itself a callee that
\* holds open cells, which resumes after its Call.
C32_Witness ==
    /\ last.step = "FrameReturn"
    /\ status = "running"
    /\ Len(calls) = 1
    /\ LeftBy(frame, "Call")
    /\ frame.up_values # <<>>
    /\ frame.base > 0
    /\ last.frame.base = frame.base + At(Code, frame.ip - 1).a

----------------------------------------------------------------------------
(* C33 *)

\* The up-value table of the prototype that the CreateClosure about to be
\* executed instantiates.
C33_Origins ==
    prog[At(prog[frame.func].funcs, into_usize(Op.arg))].up_values

\* The CreateClosure about to be executed names a prototype of the pool, and
\* every Outer origin of its table an up-value of the executing closure.
C33_Creates ==
    /\ Fetch("CreateClosure")
    /\ InBounds(prog[frame.func].funcs, into_usize(Op.arg))
    /\ \A p \in 1..Len(C33_Origins) :
           C33_Origins[p].t = "Outer" => InBounds(FrameUpValues, C33_Origins[p].i)

\* C33: CreateClosure in a frame with base F allocates for each origin
\* Parent(i) of the target's table one fresh cell Open(F + i), stores it in the
\* new closure's vector at the origin's position and appends it to the frame's
\* open-cell list, one entry per Parent origin and none per Outer origin; the
\* new closure is pushed and no existing stack slot changes.
C33_CreateClosure ==
    [][ C33_Creates
        => LET new == Len(closures) + 1
               vec == closures'[new].up_values
               parents == {p \in 1..Len(C33_Origins) : C33_Origins[p].t = "Parent"}
               added == SubSeq(frame'.up_values, Len(frame.up_values) + 1,
                               Len(frame'.up_values))
           IN  /\ status' = "running"
               /\ stack' = Append(stack, from_closure(new))
               /\ Len(closures') = new
               /\ Len(vec) = Len(C33_Origins)
               /\ Len(cells') = Len(cells) + Cardinality(parents)
               /\ \A h \in DOMAIN cells : cells'[h] = cells[h]
               /\ \A p \in parents :
                      /\ vec[p] \notin DOMAIN cells
                      /\ cells'[vec[p]] = Open(frame.base + C33_Origins[p].i)
                      /\ \A q \in parents : vec[q] = vec[p] => q = p
               /\ SubSeq(frame'.up_values, 1, Len(frame.up_values)) = frame.up_values
               /\ Len(added) = Cardinality(parents)
               /\ \A p \in parents :
                      added[Cardinality({q \in parents : q <= p})] = vec[p] ]_vars

\* In a frame with base 2 that holds one up-value, a closure with the table
\* Parent(1), Outer(0), Parent(2) has just been created: cells Open(3) and
\* Open(4) are new and in the frame's list, the middle handle is the frame's own.
C33_Witness ==
    /\ last.step = "CreateClosure"
    /\ status = "running"
    /\ frame.base = 2
    /\ as_closure(stack[Len(stack)]).some
    /\ LET vec == closures[stack[Len(stack)].v].up_values
       IN  /\ Len(vec) = 3
           /\ cells[vec[1]] = Open(3)
           /\ vec[2] = At(FrameUpValues, 0)
           /\ cells[vec[3]] = Open(4)
           /\ frame.up_values = <<vec[1], vec[3]>>

----------------------------------------------------------------------------
(* C34 *)

\* No step changes the length of an existing closure's up-value vector.
C34_LengthFixed ==
    [][ \A c \in DOMAIN closures :
            /\ c \in DOMAIN closures'
            /\ Len(closures'[c].up_values) = Len(closures[c].up_values) ]_vars

\* C34: every closure the VM constructs, by CreateClosure or by run_function's
\* wrapping of the entry prototype, has an up-value vector as long as its
\* prototype's up_values table, and no later step changes that length.
C34_VectorLength ==
    [][ /\ \A c \in DOMAIN closures' :
               Len(closures'[c].up_values) = Len(prog[closures'[c].func].up_values)
        /\ \A c \in DOMAIN closures :
               /\ c \in DOMAIN closures'
               /\ Len(closures'[c].up_values) = Len(closures[c].up_values) ]_vars

----------------------------------------------------------------------------
(* C35 *)

\* The cell that up-value `k` of the executing closure names.
C35_Cell(k) ==
    cells[At(FrameUpValues, k)]

\* GetUpValue{k}: the value behind cell k is pushed and no cell changes; an
\* invalid k is the error "up-value not found".
C35_GetStep ==
    Fetch("GetUpValue")
    => IF ~InBounds(FrameUpValues, Op.a)
       THEN /\ status' = "err"
            /\ error' = Err("up-value not found", 0, 0)
       ELSE LET c == C35_Cell(Op.a)
            IN  (c.t = "Open" => InBounds(stack, c.off))
                => /\ status' = "running"
                   /\ stack' = Append(stack, IF c.t = "Open" THEN At(stack, c.off)
                                             ELSE c.val)
                   /\ cells' = cells

\* SetUpValue{k} with a value to pop: the value goes to stack[o] for Open(o),
\* into the cell for Closed, and the cell stays Open or Closed as it was; an
\* invalid k is the error "up-value not found".
C35_SetStep ==
    (Fetch("SetUpValue") /\ stack # <<>>)
    => LET v == stack[Len(stack)]
           popped == PopN(stack, 1)
       IN  IF ~InBounds(FrameUpValues, Op.a)
           THEN /\ status' = "err"
                /\ error' = Err("up-value not found", 0, 0)
           ELSE LET h == At(FrameUpValues, Op.a)
                    c == cells[h]
                IN  (c.t = "Open" => InBounds(popped, c.off))
                    => /\ status' = "running"
                       /\ stack' = IF c.t = "Open" THEN Put(popped, c.off, v) ELSE popped
                       /\ cells' = IF c.t = "Open" THEN cells
                                   ELSE [cells EXCEPT ![h] = Closed(v)]

\* C35: GetUpValue{k} pushes stack[o] if cell k of the executing closure is
\* Open(o) and the embedded value if it is Closed, without changing the cell;
\* SetUpValue{k} pops the top value and writes it to stack[o] if the cell is
\* Open(o) or replaces the embedded value if it is Closed, the cell staying
\* Open or Closed; with k outside the closure's up-value vector both return
\* the Runtime error "up-value not found".
C35_UpValueAccess ==
    [][C35_GetStep /\ C35_SetStep]_vars

\* SetUpValue has just written the popped value through an Open cell into a
\* slot below the executing frame's window.
C35_Witness ==
    /\ last.step = "SetUpValue"
    /\ status = "running"
    /\ LET k == At(prog[last.frame.func].code, last.frame.ip).a
           c == C35_Cell(k)
       IN  /\ InBounds(FrameUpValues, k)
           /\ c.t = "Open"
           /\ c.off < frame.base
           /\ At(stack, c.off) = last.stack[Len(last.stack)]
           /\ At(last.stack, c.off) # At(stack, c.off)
           /\ Len(stack) = Len(last.stack) - 1

\* The other cases of the claim.
C35_ReadOpen ==
    /\ last.step = "GetUpValue" /\ status = "running"
    /\ C35_Cell(At(prog[last.frame.func].code, last.frame.ip).a).t = "Open"
C35_ReadClosed ==
    /\ last.step = "GetUpValue" /\ status = "running"
    /\ C35_Cell(At(prog[last.frame.func].code, last.frame.ip).a).t = "Closed"
C35_WriteClosed ==
    /\ last.step = "SetUpValue" /\ status = "running"
    /\ C35_Cell(At(prog[last.frame.func].code, last.frame.ip).a).t = "Closed"
C35_NotFound ==
    /\ last.step \in {"GetUpValue", "SetUpValue"}
    /\ error.msg = "up-value not found"

----------------------------------------------------------------------------
(* C36 *)

\* C36: after run_function returns, with Ok or with an error raised at any
\* call depth, the VM's call-frame stack is empty, so that a later
\* run_function on the same VM finds no frame left behind by an earlier run.
C36_CallsEmptyAfterRun ==
    status \in {"ok", "err"} => calls = <<>>

\* A Return of the second run has resumed a frame whose closure was built
\* before that run began (the run's own closure is the one it returned from).
C36_StaleResume ==
    /\ runs = 2
    /\ last.step = "FrameReturn"
    /\ status = "running"
    /\ last.frame.base = 0
    /\ last.frame.closure > frame.closure
    /\ closures[last.frame.closure].up_values = <<>>
    /\ calls = <<>>

----------------------------------------------------------------------------
(* C37 *)

\* The closures live on the operand stack or in a frame in flight.
C37_LiveClosures ==
    {stack[i].v : i \in {j \in 1..Len(stack) : stack[j].t = "Closure"}}
    \cup (IF status = "running" THEN {frame.closure} ELSE {})
    \cup {calls[c].closure : c \in 1..Len(calls)}

\* The open-cell lists of the frames in flight.
C37_InFlight ==
    IF status = "running" THEN InFlightCells
    ELSE UNION {{calls[c].up_values[i] : i \in 1..Len(calls[c].up_values)} :
                c \in 1..Len(calls)}

\* C37: in every reachable state, each cell that is Open(o) and reachable from
\* a closure live on the stack or in a frame has o below the stack length and
\* belongs to a frame still in flight (the current frame or one on the call
\* stack); once a frame has been popped, by Return or by End, no Open cell
\* points into its former window.
C37_NoDanglingOpen ==
    status # "panic"
    => \A c \in C37_LiveClosures :
           \A k \in 1..Len(closures[c].up_values) :
               LET h == closures[c].up_values[k]
               IN  cells[h].t = "Open"
                   => /\ cells[h].off < Len(stack)
                      /\ h \in C37_InFlight

\* The same statement for the states no error has led to and in which the
\* last frame left was left by Return.
C37_AfterReturnOnly ==
    (status \in {"running", "ok"} /\ runs = 1 /\ last.step = "FrameReturn"
     /\ At(prog[last.frame.func].code, last.frame.ip - 1).op = "Return")
    => C37_NoDanglingOpen

\* The getter stored in the holder outlives the frame that declared x and left
\* with End: its cell is still Open and points at a slot of the popped frame.
C37_DanglingAfterEnd ==
    /\ prog = LeaveHolder(end)
    /\ status = "running"
    /\ last.step = "FrameReturn"
    /\ calls = <<>>
    /\ ~C37_NoDanglingOpen

----------------------------------------------------------------------------
(* C38 *)

\* The last step belongs to a Return{count} executed by a frame whose window
\* holds fewer than count values: `step` is "Return" for the instruction
\* itself and "FrameReturn" for the arm of run_interpreter that follows it.
C38_ShortReturn(step) ==
    /\ last.step = step
    /\ LET at == IF step = "Return" THEN last.frame.ip ELSE last.frame.ip - 1
           code == prog[last.frame.func].code
       IN  /\ InBounds(code, at)
           /\ At(code, at).op = "Return"
           /\ Len(last.stack) - last.frame.base < At(code, at).a

\* C38: Return{count: n} executed when fewer than n values lie in the frame's
\* window (stack length - frame.base < n) yields a Runtime error: it computes
\* no wrapped-around start offset, does not panic, and run_function returns
\* an error.
C38_ShortReturnIsError ==
    /\ C38_ShortReturn("Return")
       => /\ status \in {"running", "err"}
          /\ action.kind = "Return" => action.start >= 0
    /\ C38_ShortReturn("FrameReturn") => status = "err"

\* The outcomes of a short Return that are not a Runtime error.
C38_Wrapped ==
    C38_ShortReturn("Return") /\ status = "running" /\ action.start < 0
C38_Overflow ==
    C38_ShortReturn("Return") /\ status = "panic"
C38_ShortOk ==
    C38_ShortReturn("FrameReturn") /\ status = "ok"
C38_ShortError ==
    C38_ShortReturn("FrameReturn") /\ status = "err"

====
